---- MODULE Spec2Model ----
(***************************************************************************)
(* A model of the validator supervisor daemon (jimpo/eth-staking,          *)
(* src/supervisor/validator_supervisor).                                   *)
(*                                                                         *)
(* The module holds several state machines over disjoint groups of         *)
(* variables, each with its own specification:                             *)
(*                                                                         *)
(*   SpecSup / FairSpecSup   one supervised child: subprocess.py           *)
(*                           (_supervise, _watch_subproc,                  *)
(*                           SimpleSubprocess.start/watch/stop,            *)
(*                           _robust_terminate) with discrete time.        *)
(*   SpecBackup              load_backup / save_backup of supervisor.py    *)
(*                           called one after the other, archives with     *)
(*                           timestamps and contents.                      *)
(*   SpecDaemon              ValidatorSupervisor.run from its own          *)
(*                           start_validator on, start_validator,          *)
(*                           stop_validator and the RPC sessions that      *)
(*                           dispatch them, interleaved at every await.    *)
(*   SpecRun                 the same from the call of run(): RPC server,  *)
(*                           tunnels and log shippers are started first.   *)
(*   SpecRpc                 one RPC session of rpc/server.py: the lines   *)
(*                           it reads, authentication and the password     *)
(*                           capture of begin_unlock / check_unlock.       *)
(*   SpecVal / FairSpecVal   the validator runner under _supervise with    *)
(*                           beacon node selection, its health check and   *)
(*                           connect_eth2_node calls.                      *)
(*   SpecConnect             connect_eth2_node on any list of port maps.   *)
(*   SpecMonitor             HealthCheck.monitor with any retries.         *)
(*   SpecRelease             set_validator_release and the call that       *)
(*                           creates a validator for a release.            *)
(*   SpecGuard               unlock, load_backup, save_backup,             *)
(*                           start_validator and stop_validator called     *)
(*                           one after the other on a locked or unlocked   *)
(*                           supervisor.                                   *)
(*   SpecMulti               start_supervised_multi on a list of children. *)
(*   SpecChild               SimpleSubprocess.start, watch and stop called *)
(*                           on one child in any order.                    *)
(*   SpecSess                the RPC server with two sessions: the handler *)
(*                           lock, handlers that raise, RpcServer.stop.    *)
(*   SpecKh                  check_host_key of several SSH clients on the  *)
(*                           shared known-hosts file.                      *)
(*   SpecBa                  BackupArchive.lock and unlock on byte strings.*)
(***************************************************************************)
EXTENDS Integers, Sequences, FiniteSets, TLC

(***************************************************************************)
(* Program constants.                                                      *)
(***************************************************************************)
FIRST_GRACE_PERIOD == 2
FINAL_GRACE_PERIOD == 10
RETRY_DELAY == 10
\* ValidatorRunner.health_check: retries=2
HEALTH_RETRIES == 2

\* The three SimpleSubprocess subclasses of the repository.
Kinds == {"validator", "promtail", "ssh"}

VARIABLES
    \* ---- one supervised child (subprocess.py) ----
    kind,          \* which SimpleSubprocess subclass is supervised
    stop_event,    \* the supervision stop_event passed to _supervise
    supPc,         \* position of the _supervise task
    watchPc,       \* position of the subproc.watch() task
    proc,          \* self._proc and the OS process behind it
    stop,          \* self._stop.is_set()
    failures,      \* HealthCheck.monitor: consecutive failures
    sinceStart,    \* time.time() - started_at, saturating at RETRY_DELAY
    elapsed,       \* the value _supervise stored in `elapsed`
    idleWaited,    \* time spent in wait_for(stop_event.wait(), timeout)
    graceWaited,   \* time spent in the current asyncio.sleep(grace period)
    \* history of the current termination
    termReqs,      \* graceful terminate requests made by watch()
    killSent,      \* watch() delivered SIGKILL
    sinceTermReq,  \* time since the first grace period began
    sigAfterExit,  \* watch() signalled a process whose wait() had completed
    \* ---- backups (supervisor.py load_backup / save_backup) ----
    now,           \* int(time.time())
    root_key,      \* a root key is loaded (self._backup_key is not None)
    localFile,     \* the file at self._backup_path
    remoteFile,    \* ~/supervisor-backups/<backup_filename> on each node
    dataDir,       \* the files under self._validator_canonical_dir
    saveSeq,       \* archives sealed so far (each seal draws a fresh nonce)
    pc,            \* per task: where the task is suspended
    op,            \* per task: the supervisor method the task is running
    ret,           \* per task: how its last supervisor method ended
    latest_backup, \* per task: load_backup's latest_backup
    idx,           \* per task: position in the loop over self._ssh_clients
    seen,          \* per task: the valid archives this load_backup has read
    observedMax,   \* newest timestamp of any valid archive read or sealed
    handler_lock,  \* RpcServer._handler_lock: the session holding it, or "free"
    \* ---- the daemon (supervisor.py run / start_validator / stop_validator) ----
    validator_task,        \* self._validator_task: a validator's number, 0 for None
    validator,             \* self._validator: a validator's number, 0 for None
    validator_stop_event,  \* self._validator_stop_event: the number of the Event
    eventSet,      \* per Event: is_set()
    vChild,        \* per validator: its child process
    vTask,         \* per validator: its supervision task
    vLoad,         \* per validator: what load_backup returned to the start that made it
    mine,          \* per task: the validator it made, or the task it awaits
    exit_event,    \* self._exit_event.is_set()
    rpc_server,    \* the RPC server accepts requests
    nRequests,     \* requests the sessions have read
    \* ---- one RPC session (rpc/server.py _Session) ----
    ctx_user,        \* ctx.user
    password_check,  \* self._password_check: the armed check's method
    password,        \* self._password: the captured line
    connected,       \* run() is still reading lines
    authed,          \* this session has handled a successful auth
    last,            \* what the session did with the line it read last
    nLines,          \* lines read so far
    call_id,         \* the id in the line read last
    resp_id,         \* the id in the response written last
    \* ---- the validator runner and its beacon nodes ----
    beacon_node_port_maps,  \* self._beacon_node_port_maps, by node number
    has_validator,   \* self._validator is not None
    nodeAnswer,      \* per node: how it answers the syncing request
    beacon_node_port,  \* the runner's self._beacon_node_port
    valPc,           \* position of the validator's _supervise task
    portIter,        \* index the list iterator of the selection pass is at
    probing,         \* the port map whose probe is awaited
    probed,          \* the probes this launch attempt has made
    runner_proc,     \* the runner's self._proc and the process behind it
    runner_stop,     \* the runner's self._stop.is_set()
    val_stop_event,  \* the validator's supervision stop event
    monitor,         \* the health check task of this _watch_subproc
    mon_failures,    \* its count of consecutive failures
    sinceStarted,    \* time.time() - started_at: 0 until it reaches RETRY_DELAY
    pending,         \* the node the last connect_eth2_node put first, until a pass starts
    probeStop,       \* the child was stopped for its health check and is not yet restarted
    connectCall,     \* the connect_eth2_node call made by the last step
    \* ---- HealthCheck.monitor on its own ----
    hc_retries,      \* self.retries
    hc_failures,     \* failures
    hc_state,        \* the monitor task
    hc_results,      \* what is_ok did at each probe so far
    \* ---- run() around the validator (supervisor.py lines 201-255) ----
    tunnels,         \* the SSH tunnels' supervision tasks
    promtails,       \* the log shippers' supervision tasks
    tmpdir,          \* self._validator_data_tmpdir exists
    vSaves,          \* per validator: save_backup calls made after its task was joined
    \* ---- set_validator_release (supervisor.py lines 377-383) ----
    validator_release,    \* self.dynamic_config.validator_release
    dynamic_config_file,  \* the release in dynamic_config.yml, or NoRelease
    relCall,              \* the last set_validator_release call and how it ended
    nSetCalls,            \* set_validator_release calls so far
    \* ---- unlock (supervisor.py lines 418-431) ----
    unlock_password,      \* the password of the last unlock call
    \* ---- start_supervised_multi (subprocess.py lines 277-289) ----
    subprocs,      \* how many children the call was given
    firstStart,    \* per child: its start_supervised coroutine
    multiPc,       \* position of the start_supervised_multi call
    multiRet,      \* the list of tasks the call returned
    multiStop,     \* stop_event.is_set()
    \* ---- one SimpleSubprocess called directly (subprocess.py lines 76-197) ----
    cProc,         \* self._proc and the OS process behind it
    cStop,         \* self._stop.is_set()
    cLogs,         \* the log file handles are open
    cStartPc,      \* position of the start() call
    cWatchPc,      \* position of the watch() call
    cLive,         \* live OS processes this child has launched
    cRunStopped,   \* stop() acted since the present process was launched
    cTermReq,      \* watch() has asked the present process to terminate
    startRet,      \* how the last start() call ended
    nStarts,       \* start() calls so far
    \* ---- the RPC server and its sessions' handlers (rpc/server.py) ----
    sPc,           \* per session: position of _Session.run
    sLock,         \* the handler lock: "free" or the session holding it
    sUser,         \* per session: ctx.user
    sReq,          \* per session: the request in hand
    sResp,         \* per session: the response written last
    sOutcome,      \* per session: how the handler called last ended
    sListening,    \* the server's socket accepts connections
    sExit,         \* self._session_exit_event.is_set()
    sLate,         \* a request was dispatched after stop()
    nStops,        \* RpcServer.stop() calls so far
    nSessReqs,     \* request lines read so far
    \* ---- the host-key checks on the shared known-hosts file (ssh.py) ----
    khPc,          \* per caller: position in check_host_key
    khLock,        \* known_hosts_lock: "free" or the caller holding it
    khFile,        \* per host: the keys of its lines in the known-hosts file
    khRet,         \* per caller: what its last check returned
    nChecks,       \* check_host_key calls so far
    \* ---- one archive locked and unlocked (backup_archive.py) ----
    baPc,          \* "new", "locked" or "unlocked"
    baKey,         \* the key given to lock
    baArchive,     \* the archive locked
    baLocked,      \* the bytes lock wrote
    baTampered,    \* the bytes were changed after lock wrote them
    baKey2,        \* the key given to unlock
    baResult       \* what unlock returned or raised

supVars == <<kind, stop_event, supPc, watchPc, proc, stop, failures, sinceStart,
             elapsed, idleWaited, graceWaited, termReqs, killSent, sinceTermReq,
             sigAfterExit>>

bakVars == <<now, root_key, localFile, remoteFile, dataDir, saveSeq, pc, op, ret,
             latest_backup, idx, seen, observedMax, handler_lock>>

daemonVars == <<validator_task, validator, validator_stop_event, eventSet, vChild, vTask,
                vLoad, mine, exit_event, rpc_server, nRequests>>

rpcVars == <<ctx_user, password_check, password, connected, authed, last, nLines,
             call_id, resp_id>>

valVars == <<beacon_node_port_maps, has_validator, nodeAnswer, beacon_node_port, valPc,
             portIter, probing, probed, runner_proc, runner_stop, val_stop_event,
             monitor, mon_failures, sinceStarted, pending, probeStop, connectCall>>

hcVars == <<hc_retries, hc_failures, hc_state, hc_results>>

runVars == <<tunnels, promtails, tmpdir, vSaves>>

relVars == <<validator_release, dynamic_config_file, relCall, nSetCalls>>

keyVars == <<unlock_password>>

multiVars == <<subprocs, firstStart, multiPc, multiRet, multiStop>>

childVars == <<cProc, cStop, cLogs, cStartPc, cWatchPc, cLive, cRunStopped, cTermReq,
               startRet, nStarts>>

sessVars == <<sPc, sLock, sUser, sReq, sResp, sOutcome, sListening, sExit, sLate, nStops,
              nSessReqs>>

khVars == <<khPc, khLock, khFile, khRet, nChecks>>

baVars == <<baPc, baKey, baArchive, baLocked, baTampered, baKey2, baResult>>

\* The machines of the single calls.
lateVars == <<childVars, sessVars, khVars, baVars>>

\* The machines added to the first three.
extVars == <<rpcVars, valVars, hcVars, runVars, relVars, keyVars,
             multiVars, lateVars>>

vars == <<supVars, bakVars, daemonVars, extVars>>

\* What the actions of the supervised-child machine leave alone.
notSup == <<bakVars, daemonVars, extVars>>

\* What load_backup and save_backup leave alone.
notBak == <<supVars, daemonVars, extVars>>

\* What the daemon's actions leave alone besides the variables they name.
notDaemon == <<supVars, extVars>>

\* The same for the steps of run() and stop_validator that start, stop,
\* delete or count what runVars holds.
notRun == <<supVars, rpcVars, valVars, hcVars, relVars, keyVars,
             multiVars, lateVars>>

\* What set_validator_release leaves alone.
notRel == <<supVars, bakVars, daemonVars, rpcVars, valVars, hcVars, runVars, keyVars,
             multiVars, lateVars>>

\* What unlock leaves alone besides the variables it names.
notKey == <<supVars, daemonVars, rpcVars, valVars, hcVars, runVars, relVars,
           multiVars, lateVars>>

\* What the actions of the RPC session leave alone.
notRpc == <<supVars, bakVars, daemonVars, valVars, hcVars, runVars, relVars, keyVars,
             multiVars, lateVars>>

\* What the actions of the validator runner leave alone.
notVal == <<supVars, bakVars, daemonVars, rpcVars, hcVars, runVars, relVars, keyVars,
             multiVars, lateVars>>

\* What the health check monitor leaves alone.
notHc == <<supVars, bakVars, daemonVars, rpcVars, valVars, runVars, relVars, keyVars,
             multiVars, lateVars>>

\* What start_supervised_multi and the tasks it starts leave alone.
notMulti == <<supVars, bakVars, daemonVars, rpcVars, valVars, hcVars, runVars, relVars,
              keyVars, lateVars>>

\* What the machines of the single calls leave alone.
notLate == <<supVars, bakVars, daemonVars, rpcVars, valVars, hcVars, runVars, relVars,
             keyVars, multiVars>>

\* What the directly called child leaves alone.
notChild == <<notLate, sessVars, khVars, baVars>>

\* What the RPC server and its sessions leave alone.
notSess == <<notLate, childVars, khVars, baVars>>

\* What the host-key checks leave alone.
notKh == <<notLate, childVars, sessVars, baVars>>

\* What locking and unlocking an archive leave alone.
notBa == <<notLate, childVars, sessVars, khVars>>

(***************************************************************************)
(* Helpers                                                                 *)
(***************************************************************************)
\* A stopwatch that stops counting at cap.
Sat(x, cap) == IF x < cap THEN x + 1 ELSE cap

\* A faulty either_or_interrupt, in which a finished interrupt wins over a
\* finished main awaitable.
EitherOrInterruptInterruptFirst(mainDone, interruptDone) ==
    IF interruptDone THEN "interrupted"
    ELSE IF mainDone THEN "completed"
    ELSE "pending"

(***************************************************************************)
(* util.either_or_interrupt: "completed" when the main awaitable is done   *)
(* when asyncio.wait returns (main_task not in pending, also when an       *)
(* interrupt is done as well), "interrupted" when only an interrupt is     *)
(* done, "pending" while asyncio.wait is still blocked.                    *)
(***************************************************************************)
EitherOrInterrupt(mainDone, interruptDone) ==
    IF mainDone THEN "completed"
    ELSE IF interruptDone THEN "interrupted"
    ELSE "pending"

(***************************************************************************)
(* Process.terminate() / Process.kill(): the signal reaches a running      *)
(* process.  For a process that has ended and whose exit the loop has not  *)
(* yet seen, the signal goes to the zombie or ProcessLookupError is        *)
(* raised.                                                                 *)
(***************************************************************************)
SendSignal(p) ==
    IF p = "running" THEN {"delivered"} ELSE {"delivered", "ProcessLookupError"}

\* proc.wait() has completed.
WaitDone == proc = "exited"

\* A faulty timeout: no retry delay at all.
IdleTimeoutNone(e) == 0

(***************************************************************************)
(* _supervise line 252: the timeout given to wait_for.                     *)
(***************************************************************************)
IdleTimeout(e) == RETRY_DELAY - e

(***************************************************************************)
(* _supervise lines 247-260, run when _watch_subproc returns: measure      *)
(* elapsed, then idle, break or start.                                     *)
(***************************************************************************)
\* SimpleSubprocess.start lines 90-101 up to the await of _launch.
BeginStart ==
    /\ supPc' = "start"
    /\ stop' = FALSE

\* A faulty loop that does not test the stop event before it starts.
BreakOrStartNoBreak ==
    BeginStart

\* _supervise lines 256-260.
BreakOrStart ==
    IF stop_event
    THEN supPc' = "done" /\ stop' = stop
    ELSE BeginStart

AfterWatch ==
    /\ watchPc' = "none"
    /\ elapsed' = sinceStart
    /\ idleWaited' = 0
    /\ sinceStart' = 0
    /\ failures' = 0
    /\ graceWaited' = 0
    /\ termReqs' = 0 /\ killSent' = FALSE /\ sinceTermReq' = 0
    /\ IF ~stop_event /\ sinceStart < RETRY_DELAY
       THEN supPc' = "idle" /\ stop' = stop
       ELSE BreakOrStart

\* The history of one termination, cleared when the watch task is over.
termVars == <<termReqs, killSent, sinceTermReq, sigAfterExit>>

(***************************************************************************)
(* _supervise line 245-246 and _watch_subproc lines 221-226: take          *)
(* started_at, create the health monitor and the watch task.  watch() with *)
(* no process (lines 104, 112-119) returns in its first step.              *)
(***************************************************************************)
SupBeginWatch ==
    /\ supPc = "top"
    /\ supPc' = "watching"
    /\ sinceStart' = 0
    /\ failures' = 0
    /\ watchPc' = IF proc = "none" THEN "returned" ELSE "wait_exit"
    /\ termReqs' = 0 /\ killSent' = FALSE /\ sinceTermReq' = 0
    /\ graceWaited' = 0
    /\ UNCHANGED <<kind, stop_event, proc, stop, elapsed, idleWaited, sigAfterExit, notSup>>

\* HealthCheck.monitor has returned (lines 211-217).
MonitorDone == kind = "validator" /\ failures > HEALTH_RETRIES

(***************************************************************************)
(* _watch_subproc line 226 returning None: watch() completed first.        *)
(***************************************************************************)
SupWatchCompleted ==
    /\ supPc = "watching"
    /\ EitherOrInterrupt(watchPc = "returned", stop_event \/ MonitorDone) = "completed"
    /\ AfterWatch
    /\ UNCHANGED <<kind, stop_event, proc, sigAfterExit, notSup>>

(***************************************************************************)
(* _watch_subproc lines 228-235: an interrupt came first; SimpleSubprocess *)
(* .stop (lines 161-172) sets _stop and sends terminate, then the loop     *)
(* awaits the watch task.                                                  *)
(***************************************************************************)
SupInterrupted ==
    /\ supPc = "watching"
    /\ EitherOrInterrupt(watchPc = "returned", stop_event \/ MonitorDone) = "interrupted"
    /\ supPc' = "await_watch"
    /\ stop' = IF proc = "none" THEN stop ELSE TRUE
    /\ UNCHANGED <<kind, stop_event, watchPc, proc, failures, sinceStart, elapsed,
                   idleWaited, graceWaited, termVars, notSup>>

\* _watch_subproc line 235: await subproc_task.
SupWatchAwaited ==
    /\ supPc = "await_watch"
    /\ watchPc = "returned"
    /\ AfterWatch
    /\ UNCHANGED <<kind, stop_event, proc, sigAfterExit, notSup>>

(***************************************************************************)
(* _supervise lines 250-257: wait_for(stop_event.wait(), timeout) ends by  *)
(* the event or by the timeout; then break or start.                       *)
(***************************************************************************)
SupIdleEnd ==
    /\ supPc = "idle"
    /\ stop_event \/ idleWaited >= IdleTimeout(elapsed)
    /\ BreakOrStart
    /\ UNCHANGED <<kind, stop_event, watchPc, proc, failures, sinceStart, elapsed,
                   idleWaited, graceWaited, termVars, notSup>>

(***************************************************************************)
(* SimpleSubprocess.start line 101 and _supervise lines 259-263: _launch   *)
(* returns a process, returns None (no healthy beacon node, host key not   *)
(* verified) or raises; the loop logs the error and goes round.            *)
(***************************************************************************)
LaunchOutcomes(k) ==
    IF k = "promtail" THEN {"process", "raise"} ELSE {"process", "none", "raise"}

\* A faulty loop that lets an exception of start() end the task.
StartRaisedEndsTask == "done"

\* _supervise lines 262-263: what the loop does when start() raises.
StartRaised == "top"

SupStartReturns ==
    /\ supPc = "start"
    /\ \E outcome \in LaunchOutcomes(kind) :
          /\ proc' = IF outcome = "process" THEN "running" ELSE "none"
          /\ supPc' = IF outcome = "raise" THEN StartRaised ELSE "top"
    /\ elapsed' = 0
    /\ idleWaited' = 0
    /\ UNCHANGED <<kind, stop_event, watchPc, stop, failures, sinceStart, graceWaited,
                   termVars, notSup>>

(***************************************************************************)
(* SimpleSubprocess.watch lines 109-119: _cleanup, forget the process,     *)
(* close the log files, return.                                            *)
(***************************************************************************)
WatchReturn ==
    /\ watchPc' = "returned"
    /\ proc' = "none"

(***************************************************************************)
(* watch line 105: either_or_interrupt(self._proc.wait(),                  *)
(* [self._stop.wait()]) returned None: the process exited by itself.       *)
(***************************************************************************)
WatchExitObserved ==
    /\ watchPc = "wait_exit"
    /\ EitherOrInterrupt(WaitDone, stop) = "completed"
    /\ WatchReturn
    /\ UNCHANGED <<kind, stop_event, supPc, stop, failures, sinceStart, elapsed,
                   idleWaited, graceWaited, termVars, notSup>>

(***************************************************************************)
(* watch lines 105-107 and _robust_terminate lines 122-130: stop was       *)
(* signalled first.  _request_terminate is proc.terminate() (line 159),    *)
(* which does not suspend, and for SSHTunnel proc.communicate(b'')         *)
(* (ssh.py line 277), which closes stdin and suspends until the process    *)
(* has exited.                                                             *)
(***************************************************************************)
WatchStopObserved ==
    /\ watchPc = "wait_exit"
    /\ EitherOrInterrupt(WaitDone, stop) = "interrupted"
    /\ termReqs' = 1
    /\ sinceTermReq' = 0
    /\ graceWaited' = 0
    /\ watchPc' = IF kind = "ssh" THEN "req_term" ELSE "grace1"
    /\ sigAfterExit' = (sigAfterExit \/ (kind # "ssh" /\ WaitDone))
    /\ UNCHANGED <<kind, stop_event, supPc, proc, stop, failures, sinceStart, elapsed,
                   idleWaited, killSent, notSup>>

\* ssh.py line 277: communicate() returns once the process has exited.
WatchCommunicateDone ==
    /\ watchPc = "req_term"
    /\ WaitDone
    /\ watchPc' = "grace1"
    /\ graceWaited' = 0
    /\ sinceTermReq' = 0
    /\ UNCHANGED <<kind, stop_event, supPc, proc, stop, failures, sinceStart, elapsed,
                   idleWaited, termReqs, killSent, sigAfterExit, notSup>>

(***************************************************************************)
(* _robust_terminate lines 127-138: the first grace period.  The process   *)
(* exited: return.  The sleep ended first: terminate again (a              *)
(* ProcessLookupError is passed over) and wait the final grace period.     *)
(***************************************************************************)
WatchGrace1 ==
    /\ watchPc = "grace1"
    /\ LET r == EitherOrInterrupt(WaitDone, graceWaited >= FIRST_GRACE_PERIOD) IN
         \/ /\ r = "completed"
            /\ WatchReturn
            /\ UNCHANGED <<termVars, graceWaited>>
         \/ /\ r = "interrupted"
            /\ termReqs' = termReqs + 1
            /\ sigAfterExit' = (sigAfterExit \/ WaitDone)
            /\ watchPc' = "grace2"
            /\ graceWaited' = 0
            /\ UNCHANGED <<proc, killSent, sinceTermReq>>
    /\ UNCHANGED <<kind, stop_event, supPc, stop, failures, sinceStart, elapsed,
                   idleWaited, notSup>>

(***************************************************************************)
(* _robust_terminate lines 140-156: the final grace period.  The process   *)
(* exited: return.  The sleep ended first: kill; on ProcessLookupError log *)
(* and return, otherwise await proc_wait_task.                             *)
(***************************************************************************)
WatchGrace2 ==
    /\ watchPc = "grace2"
    /\ LET r == EitherOrInterrupt(WaitDone, graceWaited >= FINAL_GRACE_PERIOD) IN
         \/ /\ r = "completed"
            /\ WatchReturn
            /\ UNCHANGED <<termVars, graceWaited>>
         \/ /\ r = "interrupted"
            /\ sigAfterExit' = (sigAfterExit \/ WaitDone)
            /\ \E sent \in SendSignal(proc) :
                  IF sent = "delivered"
                  THEN /\ killSent' = TRUE
                       /\ watchPc' = "await_kill"
                       /\ proc' = proc
                  ELSE /\ killSent' = killSent
                       /\ WatchReturn
            /\ UNCHANGED <<termReqs, sinceTermReq, graceWaited>>
    /\ UNCHANGED <<kind, stop_event, supPc, stop, failures, sinceStart, elapsed,
                   idleWaited, notSup>>

\* _robust_terminate line 156: await proc_wait_task after the kill.
WatchKillAwaited ==
    /\ watchPc = "await_kill"
    /\ WaitDone
    /\ WatchReturn
    /\ UNCHANGED <<kind, stop_event, supPc, stop, failures, sinceStart, elapsed,
                   idleWaited, graceWaited, termVars, notSup>>

(***************************************************************************)
(* The environment of the supervised child.                                *)
(***************************************************************************)
\* The process ends, by itself or in answer to a terminate request.
ProcExit ==
    /\ proc = "running"
    /\ ~killSent
    /\ proc' = "gone"
    /\ UNCHANGED <<kind, stop_event, supPc, watchPc, stop, failures, sinceStart, elapsed,
                   idleWaited, graceWaited, termVars, notSup>>

\* SIGKILL cannot be ignored.
ProcKilled ==
    /\ proc = "running"
    /\ killSent
    /\ proc' = "gone"
    /\ UNCHANGED <<kind, stop_event, supPc, watchPc, stop, failures, sinceStart, elapsed,
                   idleWaited, graceWaited, termVars, notSup>>

\* asyncio's child watcher reaps the process: proc.wait() completes.
ExitNoticed ==
    /\ proc = "gone"
    /\ proc' = "exited"
    /\ UNCHANGED <<kind, stop_event, supPc, watchPc, stop, failures, sinceStart, elapsed,
                   idleWaited, graceWaited, termVars, notSup>>

\* Whoever owns the supervision task sets its stop event (supervisor.py
\* lines 246, 251, 370).
SetStopEvent ==
    /\ ~stop_event
    /\ supPc # "done"
    /\ stop_event' = TRUE
    /\ UNCHANGED <<kind, supPc, watchPc, proc, stop, failures, sinceStart, elapsed,
                   idleWaited, graceWaited, termVars, notSup>>

(***************************************************************************)
(* HealthCheck.monitor lines 211-217, one probe: a success clears the      *)
(* count, a failure adds one.  Only the validator has a health check       *)
(* (base.py line 150); the monitor task lives while _watch_subproc waits.  *)
(***************************************************************************)
HealthProbe ==
    /\ kind = "validator"
    /\ supPc = "watching"
    /\ failures <= HEALTH_RETRIES
    /\ \E ok \in BOOLEAN : failures' = IF ok THEN 0 ELSE failures + 1
    /\ UNCHANGED <<kind, stop_event, supPc, watchPc, proc, stop, sinceStart, elapsed,
                   idleWaited, graceWaited, termVars, notSup>>

(***************************************************************************)
(* connect_eth2_node (supervisor.py line 402) calls stop() on the running  *)
(* validator from outside the supervision loop.                            *)
(***************************************************************************)
ExternalStop ==
    /\ kind = "validator"
    /\ supPc # "done"
    /\ proc # "none"
    /\ ~stop
    /\ stop' = TRUE
    /\ UNCHANGED <<kind, stop_event, supPc, watchPc, proc, failures, sinceStart, elapsed,
                   idleWaited, graceWaited, termVars, notSup>>

(***************************************************************************)
(* One second passes.                                                      *)
(***************************************************************************)
Tick ==
    /\ supPc # "done"
    /\ sinceStart' = IF supPc \in {"watching", "await_watch"}
                     THEN Sat(sinceStart, RETRY_DELAY) ELSE sinceStart
    /\ idleWaited' = IF supPc = "idle"
                     THEN Sat(idleWaited, RETRY_DELAY - elapsed) ELSE idleWaited
    /\ graceWaited' = IF watchPc = "grace1" THEN Sat(graceWaited, FIRST_GRACE_PERIOD)
                      ELSE IF watchPc = "grace2" THEN Sat(graceWaited, FINAL_GRACE_PERIOD)
                      ELSE graceWaited
    /\ sinceTermReq' = IF watchPc \in {"grace1", "grace2"}
                       THEN Sat(sinceTermReq, FIRST_GRACE_PERIOD + FINAL_GRACE_PERIOD)
                       ELSE sinceTermReq
    /\ UNCHANGED <<kind, stop_event, supPc, watchPc, proc, stop, failures, elapsed,
                   termReqs, killSent, sigAfterExit, notSup>>

(***************************************************************************)
(* Archives and files.                                                     *)
(*                                                                         *)
(* A file holds nothing ("absent"), bytes that do not decrypt under the    *)
(* backup key ("corrupt") or a sealed archive ("valid") with the timestamp *)
(* and the packed files inside the authenticated plaintext and the nonce   *)
(* drawn when it was sealed (backup_archive.py lines 54-67).               *)
(***************************************************************************)
\* test_supervisor.py configures two nodes.
NumRemotes == 2
Remotes == 1..NumRemotes

\* Timestamps of the archives that exist before the supervisor runs.
MaxInitTs == 2
\* The clock stops here.
MaxNow == 3
\* Seals made by direct calls of save_backup.
MaxSaves == 2

\* slashing-protection.json with the validators directory, and two
\* validator key directories (keystore.json with password.txt).
Files == {"slashing", "keyA", "keyB"}
NoFile == 0
EmptyDir == [f \in Files |-> NoFile]

Archive(t, n, fs) == [st |-> "valid", ts |-> t, nonce |-> n, files |-> fs]
Absent == [st |-> "absent", ts |-> 0, nonce |-> 0, files |-> EmptyDir]
Corrupt == [st |-> "corrupt", ts |-> 0, nonce |-> 0, files |-> EmptyDir]
\* latest_backup = None
None == [st |-> "none", ts |-> 0, nonce |-> 0, files |-> EmptyDir]

\* The archive a site (0 the local disk, r a node) holds at first, if any:
\* sites differ in the validator keys they hold.
InitFilesOf(site) ==
    [f \in Files |->
        IF \/ f = "slashing"
           \/ f = "keyA" /\ site % 2 = 0
           \/ f = "keyB" /\ site >= 1
        THEN site + 1 ELSE NoFile]

InitFileValues(site) ==
    {Absent, Corrupt} \cup {Archive(t, site + 1, InitFilesOf(site)) : t \in 1..MaxInitTs}

\* A faulty unlock that takes any bytes for an archive.
UnlockUnchecked(file) == [file EXCEPT !.st = "valid"]

(***************************************************************************)
(* BackupArchive.unlock (backup_archive.py lines 69-90): the archive, or   *)
(* LockedArchiveCorrupted for bytes that do not decrypt.                   *)
(***************************************************************************)
Unlock(file) == IF file.st = "valid" THEN file ELSE Corrupt

(***************************************************************************)
(* BackupArchive.unpack (lines 108-116): tar.extractall writes the         *)
(* archive's files over the directory and removes nothing.                 *)
(***************************************************************************)
Unpack(archive, dir) ==
    [f \in Files |-> IF archive.files[f] # NoFile THEN archive.files[f] ELSE dir[f]]

\* A faulty check that accepts every directory.
ShapeOkAlways(dir) == TRUE

(***************************************************************************)
(* check_validator_data_dir (lines 119-148).                               *)
(***************************************************************************)
ShapeOk(dir) == dir["slashing"] # NoFile

(***************************************************************************)
(* make_validator_data_backup lines 162-164: pack the directory, stamp it  *)
(* int(time.time()), seal it with a fresh nonce.                           *)
(***************************************************************************)
Pack(dir, t, n) == Archive(t, n, dir)

\* Faulty comparisons: a tie replaces the candidate; an older archive does.
ReplacesOrEqual(latest, new) == latest.st = "none" \/ latest.ts <= new.ts

ReplacesOlder(latest, new) == latest.st = "none" \/ latest.ts > new.ts

(***************************************************************************)
(* load_backup line 295: the downloaded archive replaces the candidate.    *)
(***************************************************************************)
Replaces(latest, new) == latest.st = "none" \/ latest.ts < new.ts

Sessions == {"s1", "s2"}
Tasks == {"main"} \cup Sessions

\* Validators (and their Events and supervision tasks) made in one run.
MaxValidators == 2
Validators == 1..MaxValidators

\* A faulty test that never finds a validator task.
ValidatorTaskNever == FALSE

\* self._validator_task is not None.
ValidatorTaskExists == validator_task # 0

Max(a, b) == IF a >= b THEN a ELSE b

\* run() is past line 212: "main" is the task of run().  Before run() is
\* called, "main" is a caller of the supervisor's methods, as the tests are.
RunCalled == tunnels # "new"

(***************************************************************************)
(* Where a task goes when the supervisor method it called returns or       *)
(* raises.  run() (lines 226-238) logs what start_validator raises and     *)
(* waits for the exit event; what stop_validator raises leaves run().  A   *)
(* session (rpc/server.py lines 382-387) answers and reads on, and a       *)
(* direct caller makes its next call.                                      *)
(***************************************************************************)
AfterCall(t, method, result) ==
    IF t = "main" /\ RunCalled /\ method = "start_validator" THEN "wait_exit"
    ELSE IF t = "main" /\ RunCalled /\ method = "stop_validator"
    THEN (IF result \in {"True", "False"} THEN "teardown" ELSE "crashed")
    ELSE "idle"

\* A session runs a supervisor method inside `async with self._handler_lock`
\* (rpc/server.py line 383); run() takes no lock (supervisor.py 227, 238).
Holding(t) == IF t \in Sessions THEN t ELSE handler_lock

\* The outermost call of the task is over; `async with self._handler_lock`
\* (rpc/server.py line 383) releases the lock on return and on exception.
Resume(t, method, result) ==
    /\ pc' = [pc EXCEPT ![t] = AfterCall(t, method, result)]
    /\ op' = [op EXCEPT ![t] = "none"]
    /\ ret' = [ret EXCEPT ![t] = <<method, result>>]
    /\ handler_lock' = IF t \in Sessions THEN "free" ELSE handler_lock

(***************************************************************************)
(* load_backup is over.  start_validator line 345 awaits it and drops the  *)
(* value it returns; what it raises leaves start_validator.                *)
(***************************************************************************)
LoadReturns(t, caller, result) ==
    IF caller = "start_validator" /\ result \in {"True", "False"}
    THEN /\ pc' = [pc EXCEPT ![t] = "create"]
         /\ op' = [op EXCEPT ![t] = caller]
         /\ ret' = [ret EXCEPT ![t] = <<"load_backup", result>>]
         /\ UNCHANGED handler_lock
    ELSE Resume(t, caller, result)

(***************************************************************************)
(* save_backup is over.  stop_validator lines 374-375 then returns True.   *)
(***************************************************************************)
SaveReturns(t, caller, result) ==
    Resume(t, caller,
           IF caller = "stop_validator" /\ result = "returned" THEN "True" ELSE result)

(***************************************************************************)
(* load_backup lines 301-308: no candidate, return False; otherwise unpack *)
(* the candidate into the canonical dir and return True.                   *)
(***************************************************************************)
LoadFinish(t, latest, read) ==
    /\ dataDir' = IF latest.st = "none" THEN dataDir ELSE Unpack(latest, dataDir)
    /\ LoadReturns(t, op[t], IF latest.st = "none" THEN "False" ELSE "True")
    \* The frame of load_backup is dropped when it returns to start_validator;
    \* a direct caller keeps what the call read and chose.
    /\ latest_backup' = [latest_backup EXCEPT ![t] = IF op[t] = "load_backup" THEN latest
                                                     ELSE None]
    /\ seen' = [seen EXCEPT ![t] = IF op[t] = "load_backup" THEN read ELSE <<>>]
    /\ idx' = [idx EXCEPT ![t] = 0]

(***************************************************************************)
(* load_backup lines 268-287: the guards, the local archive, then the      *)
(* first download is awaited.                                              *)
(***************************************************************************)
LoadBegin(t, caller) ==
    IF ~root_key
    THEN /\ Resume(t, caller, "UnlockRequired")
         /\ UNCHANGED <<latest_backup, idx, seen, observedMax>>
    ELSE IF ValidatorTaskExists
    THEN /\ Resume(t, caller, "ValidatorRunning")
         /\ UNCHANGED <<latest_backup, idx, seen, observedMax>>
    ELSE LET local == IF localFile.st = "absent" THEN Corrupt ELSE Unlock(localFile)
             cand == IF local.st = "valid" THEN local ELSE None
         IN /\ latest_backup' = [latest_backup EXCEPT ![t] = cand]
            /\ seen' = [seen EXCEPT ![t] = IF cand.st = "valid" THEN <<cand>> ELSE <<>>]
            /\ observedMax' = Max(observedMax, cand.ts)
            /\ idx' = [idx EXCEPT ![t] = 1]
            /\ pc' = [pc EXCEPT ![t] = "load_download"]
            /\ op' = [op EXCEPT ![t] = caller]
            /\ handler_lock' = Holding(t)
            /\ UNCHANGED ret

(***************************************************************************)
(* load_backup lines 287-299, one turn of the loop when the scp ends: the  *)
(* copy failed (continue), the download does not decrypt (warning), or it  *)
(* is compared with the candidate and, when it replaces it, copied to the  *)
(* local backup path.  After the last node, lines 301-308.                 *)
(***************************************************************************)
LoadDownload(t) ==
    /\ pc[t] = "load_download"
    /\ \E copied \in BOOLEAN :
         LET file == remoteFile[idx[t]]
             got == copied /\ file.st # "absent"
             new == IF got THEN Unlock(file) ELSE Corrupt
             valid == new.st = "valid"
             take == valid /\ Replaces(latest_backup[t], new)
             latest == IF take THEN new ELSE latest_backup[t]
             read == IF valid THEN Append(seen[t], new) ELSE seen[t]
         IN /\ localFile' = IF take THEN file ELSE localFile
            /\ observedMax' = Max(observedMax, new.ts)
            /\ IF idx[t] < NumRemotes
               THEN /\ latest_backup' = [latest_backup EXCEPT ![t] = latest]
                    /\ seen' = [seen EXCEPT ![t] = read]
                    /\ idx' = [idx EXCEPT ![t] = @ + 1]
                    /\ UNCHANGED <<pc, op, ret, handler_lock, dataDir>>
               ELSE LoadFinish(t, latest, read)
    /\ UNCHANGED <<now, root_key, remoteFile, saveSeq, notBak>>

(***************************************************************************)
(* save_backup lines 320-329: the guards, make_validator_data_backup       *)
(* (shape check, then truncate and write the local file), then the first   *)
(* upload is awaited.  taskExists is self._validator_task is not None as   *)
(* line 322 reads it.                                                      *)
(***************************************************************************)
SaveBegin(t, caller, taskExists) ==
    IF ~root_key
    THEN /\ SaveReturns(t, caller, "UnlockRequired")
         /\ UNCHANGED <<localFile, saveSeq, observedMax, idx>>
    ELSE IF taskExists
    THEN /\ SaveReturns(t, caller, "ValidatorRunning")
         /\ UNCHANGED <<localFile, saveSeq, observedMax, idx>>
    ELSE IF ~ShapeOk(dataDir)
    THEN /\ SaveReturns(t, caller, "MissingValidatorData")
         /\ UNCHANGED <<localFile, saveSeq, observedMax, idx>>
    ELSE /\ localFile' = Pack(dataDir, now, NumRemotes + 2 + saveSeq)
         /\ saveSeq' = saveSeq + 1
         /\ observedMax' = Max(observedMax, now)
         /\ idx' = [idx EXCEPT ![t] = 1]
         /\ pc' = [pc EXCEPT ![t] = "save_upload"]
         /\ op' = [op EXCEPT ![t] = caller]
         /\ handler_lock' = Holding(t)
         /\ UNCHANGED ret

\* A faulty loop that ends at the first upload that fails.
MoreUploadsWhileCopied(i, copied) == i < NumRemotes /\ copied

\* save_backup lines 327-332: the for loop goes on to the next client
\* whatever copy_local_to_remote returned.
MoreUploads(i, copied) == i < NumRemotes

(***************************************************************************)
(* save_backup lines 327-332, one turn of the loop when the scp ends: the  *)
(* node now holds the local file, or the upload failed and is logged.      *)
(***************************************************************************)
SaveUpload(t) ==
    /\ pc[t] = "save_upload"
    /\ \E copied \in BOOLEAN :
         /\ remoteFile' = IF copied THEN [remoteFile EXCEPT ![idx[t]] = localFile]
                          ELSE remoteFile
         /\ IF MoreUploads(idx[t], copied)
            THEN /\ idx' = [idx EXCEPT ![t] = @ + 1]
                 /\ UNCHANGED <<pc, op, ret, handler_lock>>
            ELSE /\ idx' = [idx EXCEPT ![t] = 0]
                 /\ SaveReturns(t, op[t], "returned")
    /\ UNCHANGED <<now, root_key, localFile, dataDir, saveSeq, latest_backup, seen,
                   observedMax, notBak>>

(***************************************************************************)
(* The caller of test_supervisor.py: load_backup and save_backup called    *)
(* directly, one after the other.                                          *)
(***************************************************************************)
CallLoad ==
    /\ pc["main"] = "idle"
    /\ LoadBegin("main", "load_backup")
    /\ UNCHANGED <<now, root_key, localFile, remoteFile, dataDir, saveSeq, notBak>>

CallSave ==
    /\ pc["main"] = "idle"
    /\ saveSeq < MaxSaves
    /\ SaveBegin("main", "save_backup", ValidatorTaskExists)
    /\ UNCHANGED <<now, root_key, remoteFile, dataDir, latest_backup, seen, notBak>>

\* A second passes on the wall clock.
ClockTick ==
    /\ now < MaxNow
    /\ now' = now + 1
    /\ UNCHANGED <<root_key, localFile, remoteFile, dataDir, saveSeq, pc, op, ret,
                   latest_backup, idx, seen, observedMax, handler_lock, notBak>>

\* The backup machine at rest.
BakOff ==
    /\ now = 0
    /\ root_key = FALSE
    /\ localFile = Absent
    /\ remoteFile = [r \in Remotes |-> Absent]
    /\ dataDir = EmptyDir
    /\ saveSeq = 0
    /\ pc = [t \in Tasks |-> "off"]
    /\ op = [t \in Tasks |-> "none"]
    /\ ret = [t \in Tasks |-> <<"none", "none">>]
    /\ latest_backup = [t \in Tasks |-> None]
    /\ idx = [t \in Tasks |-> 0]
    /\ seen = [t \in Tasks |-> <<>>]
    /\ observedMax = 0
    /\ handler_lock = "free"

\* ValidatorSupervisor.__init__ lines 177-179: no validator, a fresh Event,
\* no task.
DaemonOff ==
    /\ validator_task = 0
    /\ validator = 0
    /\ validator_stop_event = 0
    /\ eventSet = [e \in {0} \cup Validators |-> FALSE]
    /\ vChild = [v \in Validators |-> "none"]
    /\ vTask = [v \in Validators |-> "none"]
    /\ vLoad = [v \in Validators |-> "none"]
    /\ mine = [t \in Tasks |-> 0]
    /\ exit_event = FALSE
    /\ rpc_server = FALSE
    /\ nRequests = 0

(***************************************************************************)
(* The daemon: run(), the RPC sessions, start_validator, stop_validator.   *)
(***************************************************************************)
\* Requests the sessions read in one run.
MaxRequests == 2

\* The number the next validator gets.
NewValidator == Cardinality({v \in Validators : vLoad[v] # "none"}) + 1

\* Executions of start_validator that have not yet made their validator.
StartsPending ==
    {t \in Tasks : \/ pc[t] \in {"start", "tunnels_start", "promtails_start", "boot"}
                   \/ op[t] = "start_validator" /\ pc[t] \in {"lock_wait", "load_download",
                                                              "create"}}

(***************************************************************************)
(* start_validator lines 342-345: return False when a task exists, else    *)
(* await load_backup.                                                      *)
(***************************************************************************)
StartBegin(t) ==
    /\ IF ValidatorTaskExists
       THEN /\ Resume(t, "start_validator", "False")
            /\ UNCHANGED <<latest_backup, idx, seen, observedMax>>
       ELSE LoadBegin(t, "start_validator")
    /\ UNCHANGED <<now, root_key, localFile, remoteFile, dataDir, saveSeq, notDaemon,
                   daemonVars>>

(***************************************************************************)
(* start_validator lines 347-351 when _create_validator_for_release ends:  *)
(* it raised, or it returned the validator; then a new stop Event, and     *)
(* start_supervised calls start(), whose _launch (base.py lines 86-96)     *)
(* checks the data dir before it first suspends.                           *)
(***************************************************************************)
StartCreated(t) ==
    /\ pc[t] = "create"
    /\ \E made \in BOOLEAN :
         IF ~made
         THEN /\ Resume(t, "start_validator", "BadValidatorRelease")
              /\ UNCHANGED <<validator, validator_stop_event, eventSet, vLoad, mine>>
         ELSE LET v == NewValidator IN
              /\ validator' = v
              /\ validator_stop_event' = v
              /\ eventSet' = [eventSet EXCEPT ![v] = FALSE]
              /\ vLoad' = [vLoad EXCEPT ![v] = ret[t][2]]
              /\ IF ShapeOk(dataDir)
                 THEN /\ pc' = [pc EXCEPT ![t] = "launch"]
                      /\ mine' = [mine EXCEPT ![t] = v]
                      /\ UNCHANGED <<op, ret, handler_lock>>
                 ELSE /\ Resume(t, "start_validator", "MissingValidatorData")
                      /\ UNCHANGED mine
    /\ UNCHANGED <<now, root_key, localFile, remoteFile, dataDir, saveSeq, latest_backup,
                   idx, seen, observedMax, validator_task, vChild, vTask, exit_event,
                   rpc_server, nRequests, notDaemon>>

(***************************************************************************)
(* start_validator lines 351-357 when start() ends (subprocess.py lines    *)
(* 266-274): it raised; or _launch returned a process or None, the         *)
(* supervision task is created and stored, and True is returned.           *)
(***************************************************************************)
StartLaunched(t) ==
    /\ pc[t] = "launch"
    /\ \E outcome \in LaunchOutcomes("validator") :
         IF outcome = "raise"
         THEN /\ Resume(t, "start_validator", "Exception")
              /\ UNCHANGED <<validator_task, vChild, vTask>>
         ELSE /\ vChild' = [vChild EXCEPT
                              ![mine[t]] = IF outcome = "process" THEN "running" ELSE "none"]
              /\ vTask' = [vTask EXCEPT ![mine[t]] = "running"]
              /\ validator_task' = mine[t]
              /\ Resume(t, "start_validator", "True")
    /\ mine' = [mine EXCEPT ![t] = 0]
    /\ UNCHANGED <<now, root_key, localFile, remoteFile, dataDir, saveSeq, latest_backup,
                   idx, seen, observedMax, validator, validator_stop_event, eventSet,
                   vLoad, exit_event, rpc_server, nRequests, notDaemon>>

(***************************************************************************)
(* stop_validator lines 366-371: return False when no task exists, else    *)
(* set the stop event and await the task.                                  *)
(***************************************************************************)
StopBegin(t) ==
    /\ IF ~ValidatorTaskExists
       THEN /\ Resume(t, "stop_validator", "False")
            /\ UNCHANGED <<eventSet, mine>>
       ELSE /\ eventSet' = [eventSet EXCEPT ![validator_stop_event] = TRUE]
            /\ mine' = [mine EXCEPT ![t] = validator_task]
            /\ pc' = [pc EXCEPT ![t] = "join"]
            /\ op' = [op EXCEPT ![t] = "stop_validator"]
            /\ handler_lock' = Holding(t)
            /\ UNCHANGED ret
    /\ UNCHANGED <<now, root_key, localFile, remoteFile, dataDir, saveSeq, latest_backup,
                   idx, seen, observedMax, validator_task, validator,
                   validator_stop_event, vChild, vTask, vLoad, exit_event, rpc_server,
                   nRequests, notDaemon>>

(***************************************************************************)
(* stop_validator lines 371-374 when the awaited task is done: forget the  *)
(* validator and the task, then save_backup up to its first upload.        *)
(***************************************************************************)
StopJoined(t) ==
    /\ pc[t] = "join"
    /\ vTask[mine[t]] = "done"
    /\ validator' = 0
    /\ validator_task' = 0
    /\ mine' = [mine EXCEPT ![t] = 0]
    /\ SaveBegin(t, "stop_validator", FALSE)
    /\ vSaves' = [vSaves EXCEPT ![mine[t]] = @ + 1]
    /\ UNCHANGED <<now, root_key, remoteFile, dataDir, latest_backup, seen,
                   validator_stop_event, eventSet, vChild, vTask, vLoad, exit_event,
                   rpc_server, nRequests, tunnels, promtails, tmpdir, notRun>>

\* A faulty run() that goes on to the tunnels without the RPC server.
MainStartRpcSkipped ==
    /\ pc["main"] = "start"
    /\ pc' = [pc EXCEPT !["main"] = "tunnels_start"]
    /\ UNCHANGED <<now, root_key, localFile, remoteFile, dataDir, saveSeq, op, ret,
                   latest_backup, idx, seen, observedMax, handler_lock, daemonVars,
                   runVars, notRun>>

(***************************************************************************)
(* run() line 209: the RPC server is started and listens.                  *)
(***************************************************************************)
MainStartRpc ==
    /\ pc["main"] = "start"
    /\ rpc_server' = TRUE
    /\ pc' = [pc EXCEPT !["main"] = "tunnels_start"]
    /\ UNCHANGED <<now, root_key, localFile, remoteFile, dataDir, saveSeq, op, ret,
                   latest_backup, idx, seen, observedMax, handler_lock, validator_task,
                   validator, validator_stop_event, eventSet, vChild, vTask, vLoad, mine,
                   exit_event, nRequests, runVars, notRun>>

(***************************************************************************)
(* run() lines 211-217: start_supervised_multi on the tunnels returns      *)
(* their supervision tasks, or raises what a first start() raised, which   *)
(* ends run().                                                             *)
(***************************************************************************)
MainStartTunnels ==
    /\ pc["main"] = "tunnels_start"
    /\ \E outcome \in {"started", "raise"} :
         IF outcome = "raise"
         THEN /\ tunnels' = "failed"
              /\ pc' = [pc EXCEPT !["main"] = "crashed"]
         ELSE /\ tunnels' = "running"
              /\ pc' = [pc EXCEPT !["main"] = "promtails_start"]
    /\ UNCHANGED <<now, root_key, localFile, remoteFile, dataDir, saveSeq, op, ret,
                   latest_backup, idx, seen, observedMax, handler_lock, daemonVars,
                   promtails, tmpdir, vSaves, notRun>>

(***************************************************************************)
(* run() lines 219-224: start_supervised_multi on the log shippers, an     *)
(* empty list when they are disabled.                                      *)
(***************************************************************************)
MainStartPromtails ==
    /\ pc["main"] = "promtails_start"
    /\ \E outcome \in {"started", "raise"} :
         IF promtails = "new" /\ outcome = "raise"
         THEN /\ promtails' = "failed"
              /\ pc' = [pc EXCEPT !["main"] = "crashed"]
         ELSE /\ promtails' = IF promtails = "new" THEN "running" ELSE promtails
              /\ pc' = [pc EXCEPT !["main"] = "boot"]
    /\ UNCHANGED <<now, root_key, localFile, remoteFile, dataDir, saveSeq, op, ret,
                   latest_backup, idx, seen, observedMax, handler_lock, daemonVars,
                   tunnels, tmpdir, vSaves, notRun>>

(***************************************************************************)
(* run() line 227: the start at daemon startup, outside the handler lock.  *)
(***************************************************************************)
MainStartValidator ==
    /\ pc["main"] = "boot"
    /\ StartBegin("main")

(***************************************************************************)
(* run() lines 233-237: the exit event ends the wait; the RPC server is    *)
(* closed, and wait_closed() is awaited.                                   *)
(***************************************************************************)
MainExit ==
    /\ pc["main"] = "wait_exit"
    /\ exit_event
    /\ rpc_server' = FALSE
    /\ pc' = [pc EXCEPT !["main"] = "rpc_stopped"]
    /\ UNCHANGED <<now, root_key, localFile, remoteFile, dataDir, saveSeq, op, ret,
                   latest_backup, idx, seen, observedMax, handler_lock, validator_task,
                   validator, validator_stop_event, eventSet, vChild, vTask, vLoad, mine,
                   exit_event, nRequests, notDaemon>>

\* run() line 238: the stop at shutdown, outside the handler lock.
MainStopValidator ==
    /\ pc["main"] = "rpc_stopped"
    /\ StopBegin("main")

(***************************************************************************)
(* run() lines 240-248: with log shippers, sleep three seconds, set their  *)
(* stop event and wait for their supervision tasks.                        *)
(***************************************************************************)
MainStopPromtails ==
    /\ pc["main"] = "teardown"
    /\ promtails' = IF promtails = "running" THEN "stopped" ELSE promtails
    /\ pc' = [pc EXCEPT !["main"] = "tunnels_stop"]
    /\ UNCHANGED <<now, root_key, localFile, remoteFile, dataDir, saveSeq, op, ret,
                   latest_backup, idx, seen, observedMax, handler_lock, daemonVars,
                   tunnels, tmpdir, vSaves, notRun>>

\* run() lines 250-253: set the tunnels' stop event and wait for their
\* supervision tasks.
MainStopTunnels ==
    /\ pc["main"] = "tunnels_stop"
    /\ tunnels' = "stopped"
    /\ pc' = [pc EXCEPT !["main"] = "cleanup"]
    /\ UNCHANGED <<now, root_key, localFile, remoteFile, dataDir, saveSeq, op, ret,
                   latest_backup, idx, seen, observedMax, handler_lock, daemonVars,
                   promtails, tmpdir, vSaves, notRun>>

\* run() line 255: remove the temporary directory that holds the canonical
\* dir, and return.
MainCleanup ==
    /\ pc["main"] = "cleanup"
    /\ tmpdir' = FALSE
    /\ dataDir' = EmptyDir
    /\ pc' = [pc EXCEPT !["main"] = "down"]
    /\ UNCHANGED <<now, root_key, localFile, remoteFile, saveSeq, op, ret, latest_backup,
                   idx, seen, observedMax, handler_lock, daemonVars, tunnels, promtails,
                   vSaves, notRun>>

(***************************************************************************)
(* _Session.run lines 310-330 and _handle_request: a session reads a       *)
(* request and goes to acquire the handler lock (_handle_rpc line 383).    *)
(***************************************************************************)
RpcRequest(s, method) ==
    /\ pc[s] = "idle"
    /\ rpc_server
    /\ nRequests < MaxRequests
    /\ method = "start_validator"
          => NewValidator + Cardinality(StartsPending) <= MaxValidators
    /\ nRequests' = nRequests + 1
    /\ pc' = [pc EXCEPT ![s] = "lock_wait"]
    /\ op' = [op EXCEPT ![s] = method]
    /\ UNCHANGED <<now, root_key, localFile, remoteFile, dataDir, saveSeq, ret,
                   latest_backup, idx, seen, observedMax, handler_lock, validator_task,
                   validator, validator_stop_event, eventSet, vChild, vTask, vLoad, mine,
                   exit_event, rpc_server, notDaemon>>

\* A faulty _handle_rpc that runs the handler without the lock's consent.
LockIgnored == TRUE

\* asyncio.Lock.acquire returns only while no task holds the lock.
LockFree == handler_lock = "free"

(***************************************************************************)
(* _handle_rpc lines 382-384: the lock is acquired and the operation's     *)
(* handler (StartValidatorOp, StopValidatorOp) runs to its first await.    *)
(***************************************************************************)
RpcHandle(s) ==
    /\ pc[s] = "lock_wait"
    /\ LockFree
    /\ IF op[s] = "start_validator" THEN StartBegin(s) ELSE StopBegin(s)

(***************************************************************************)
(* The supervision task of validator v (subprocess.py _supervise), in      *)
(* large steps: the child ends; the loop starts it again; the stop event   *)
(* ends the child and the task.                                            *)
(***************************************************************************)
VChildExit(v) ==
    /\ vTask[v] = "running"
    /\ vChild[v] = "running"
    /\ vChild' = [vChild EXCEPT ![v] = "none"]
    /\ UNCHANGED <<bakVars, validator_task, validator, validator_stop_event, eventSet,
                   vTask, vLoad, mine, exit_event, rpc_server, nRequests, notDaemon>>

VRestart(v) ==
    /\ vTask[v] = "running"
    /\ vChild[v] = "none"
    /\ ~eventSet[v]
    /\ ShapeOk(dataDir)
    /\ vChild' = [vChild EXCEPT ![v] = "running"]
    /\ UNCHANGED <<bakVars, validator_task, validator, validator_stop_event, eventSet,
                   vTask, vLoad, mine, exit_event, rpc_server, nRequests, notDaemon>>

VTaskEnd(v) ==
    /\ vTask[v] = "running"
    /\ eventSet[v]
    /\ vChild' = [vChild EXCEPT ![v] = "none"]
    /\ vTask' = [vTask EXCEPT ![v] = "done"]
    /\ UNCHANGED <<bakVars, validator_task, validator, validator_stop_event, eventSet,
                   vLoad, mine, exit_event, rpc_server, nRequests, notDaemon>>

\* __main__.py lines 40-46: SIGINT or SIGTERM sets the exit event, which
\* only the wait of run() line 233 reads.
ExitSignal ==
    /\ ~exit_event
    /\ pc["main"] = "wait_exit"
    /\ exit_event' = TRUE
    /\ UNCHANGED <<bakVars, validator_task, validator, validator_stop_event, eventSet,
                   vChild, vTask, vLoad, mine, rpc_server, nRequests, notDaemon>>

(***************************************************************************)
(* The local backup file is lost or damaged while no validator data is     *)
(* being saved: the states load_backup lines 274-281 provide for.          *)
(***************************************************************************)
LocalBackupLost ==
    /\ localFile.st = "valid"
    /\ \A t \in Tasks : pc[t] # "save_upload"
    /\ localFile' = Absent
    /\ UNCHANGED <<now, root_key, remoteFile, dataDir, saveSeq, pc, op, ret,
                   latest_backup, idx, seen, observedMax, handler_lock, daemonVars,
                   notDaemon>>

(***************************************************************************)
(* One RPC session (rpc/server.py, RpcServer._Session).                    *)
(*                                                                         *)
(* A line the client sends is one of: bytes that are not UTF-8, text that  *)
(* is not JSON, JSON that is not a JSON-RPC 2.0 request, or a request.     *)
(***************************************************************************)
\* Lines a session reads before the client hangs up.
MaxLines == 5

\* ctx.user before any auth, self._password and self._password_check unset.
NoUser == "none"
NoCheck == "none"

\* config.rpc_users: the users and each user's key.
RpcUsers == {"admin", "bob"}
UserKey(u) == IF u = "admin" THEN "k_admin" ELSE "k_bob"

\* The passphrase key_desc.open accepts.
Passphrase == "secret"

\* ctx.auth_challenge of this session; "other" is a challenge drawn for
\* another session.
auth_challenge == "own"

\* auth.py auth_response: a keyed MAC of the challenge, one value per pair.
auth_response(key, challenge) == <<key, challenge>>

\* auth.py check_auth_response
check_auth_response(key, challenge, response) ==
    auth_response(key, challenge) = response

Line(form, method, params, u, response, text) ==
    [form |-> form, method |-> method, params |-> params, user |-> u,
     response |-> response, text |-> text]

NoLine == Line("none", "", "", "", <<"", "">>, "")
RawLine(text) == Line("not_json", "", "", "", <<"", "">>, text)
NotUtf8Line == Line("not_utf8", "", "", "", <<"", "">>, "")
MalformedLine == Line("malformed", "", "", "", <<"", "">>, "")
Request(method) == Line("request", method, "ok", "", <<"", "">>, "")
AuthRequest(params, u, response) ==
    Line("request", "auth", params, u, response, "")

\* Methods a client names: those of _Session.OPERATIONS the model tells
\* apart, check_unlock, and a name no operation has.
OPERATIONS == {"get_health", "begin_unlock", "get_auth_challenge", "auth"}
RequestMethods == {"get_health", "begin_unlock", "get_auth_challenge",
                   "check_unlock", "bogus"}

Lines ==
    {RawLine("secret"), RawLine("wrong"), NotUtf8Line, MalformedLine}
    \cup {Request(m) : m \in RequestMethods}
    \cup {AuthRequest("bad", "", <<"", "">>)}
    \cup {AuthRequest("ok", u, auth_response(k, c)) :
            u \in {"admin", "bob", "mallory"}, k \in {"k_admin", "k_bob"},
            c \in {"own", "other"}}

\* A faulty table in which no operation asks for authentication.
AuthenticatedNever(method) == FALSE

\* RpcOperation.authenticated: True unless the operation overrides it.
Authenticated(method) == method \notin {"get_auth_challenge", "auth"}

\* RpcResult(success, result, check_password); `about` is the part of the
\* result text that varies.
RpcResult(success, result, about, check) ==
    [success |-> success, result |-> result, about |-> about,
     check_password |-> check]

\* What handling a request did: the result, ctx.user afterwards, the
\* handler that ran, the call it made on ctx.target and the password the
\* handler was given.
Outcome(result, u, handler, call, arg) ==
    [result |-> result, user |-> u, handler |-> handler, call |-> call,
     arg |-> arg]

Rejected(result, about) ==
    Outcome(RpcResult(FALSE, result, about, NoCheck), ctx_user, "none", "none",
            NoLine)

\* AuthOp.handle
AuthOpHandle(l) ==
    IF l.params # "ok"
    THEN Outcome(RpcResult(FALSE, "params must be an array [USER, AUTH_RESPONSE]",
                           "", NoCheck), ctx_user, "auth", "none", NoLine)
    ELSE IF l.user \notin RpcUsers
    THEN Outcome(RpcResult(FALSE, "user not found", "", NoCheck),
                 ctx_user, "auth", "none", NoLine)
    ELSE IF ~check_auth_response(UserKey(l.user), auth_challenge, l.response)
    THEN Outcome(RpcResult(FALSE, "denied", "", NoCheck),
                 ctx_user, "auth", "none", NoLine)
    ELSE Outcome(RpcResult(TRUE, "accepted", "", NoCheck),
                 l.user, "auth", "none", NoLine)

\* CheckUnlockOp.handle: the captured bytes decoded and stripped, then
\* ctx.target.unlock, which answers whether key_desc.open took the password.
CheckUnlockOpHandle(pw) ==
    IF pw.form = "not_utf8"
    THEN Outcome(RpcResult(FALSE, "Password is not valid UTF-8", "", NoCheck),
                 ctx_user, "check_unlock", "none", pw)
    ELSE Outcome(RpcResult(TRUE,
                           IF pw.form = "not_json" /\ pw.text = Passphrase
                           THEN "True" ELSE "False", "", NoCheck),
                 ctx_user, "check_unlock", "unlock", pw)

\* The handle method of the operation registered under a method name.
OperationHandle(l) ==
    CASE l.method = "auth" -> AuthOpHandle(l)
      [] l.method = "get_auth_challenge" ->
            Outcome(RpcResult(TRUE, "challenge", auth_challenge, NoCheck),
                    ctx_user, "get_auth_challenge", "none", NoLine)
      [] l.method = "begin_unlock" ->
            Outcome(RpcResult(TRUE, "ENTER PASSPHRASE", "", "check_unlock"),
                    ctx_user, "begin_unlock", "none", NoLine)
      [] OTHER ->
            Outcome(RpcResult(TRUE, "health", "", NoCheck),
                    ctx_user, "get_health", "get_health", NoLine)

\* _handle_rpc lines 354-371: a password check is armed.
HandlePasswordCheck(l) ==
    IF l.method # password_check
    THEN Rejected("Expected method", password_check)
    ELSE CheckUnlockOpHandle(password)

\* _handle_rpc lines 373-387: no password check is armed.
HandleOperation(l) ==
    IF l.method \notin OPERATIONS
    THEN Rejected("Unknown JSON-RPC command", "")
    ELSE IF ctx_user = NoUser /\ Authenticated(l.method)
    THEN Rejected("requires authentication", l.method)
    ELSE OperationHandle(l)

\* _handle_rpc
HandleRpc(l) ==
    IF password_check # NoCheck THEN HandlePasswordCheck(l)
    ELSE HandleOperation(l)

\* JsonRpcResponse(call_id, result, is_error)
Response(is_error, result, about) ==
    [is_error |-> is_error, result |-> result, about |-> about]
NoResponse == Response(FALSE, "none", "")

\* What the session did with the line it read last.
Step(l, captured, response, handler, call, arg) ==
    [line |-> l, captured |-> captured, response |-> response,
     handler |-> handler, call |-> call, arg |-> arg]
NoStep == Step(NoLine, FALSE, NoResponse, "none", "none", NoLine)

\* A faulty run() that never takes a line as the password.
AwaitingPasswordNever == FALSE

\* run() line 321: the line read is the password, not a request.
AwaitingPassword == password_check # NoCheck /\ password = NoLine

\* A faulty _handle_rpc that keeps the captured password.
KeptPassword == password

\* _handle_rpc line 360: self._password = None
ClearedPassword == NoLine

\* Call ids the clients use.
CallIds == {1, 2}

\* The id of a line or a response that has none (JSON null).
NullId == 0

\* No response was written.
NoId == 0 - 1

\* _handle_request lines 337, 345 and 349: the id of the response is the
\* request's call_id, and None when the line was not parsed as a request.
ResponseId(l, id) == IF l.form = "request" THEN id ELSE NullId

\* run() lines 321-322: the line is stored, nothing is written.
RpcCapture(l) ==
    /\ AwaitingPassword
    /\ password' = l
    /\ resp_id' = NoId
    /\ last' = Step(l, TRUE, NoResponse, "none", "none", NoLine)
    /\ UNCHANGED <<ctx_user, password_check, connected, authed>>

\* _handle_request lines 333-347: the line is not a JSON-RPC request.  Bytes
\* that are not UTF-8 make json.loads raise UnicodeDecodeError, which is not
\* a JSONDecodeError: run() ends and its finally clause closes the writer.
RpcNotARequest(l) ==
    /\ ~AwaitingPassword
    /\ l.form # "request"
    /\ connected' = (l.form # "not_utf8")
    /\ resp_id' = IF l.form = "not_utf8" THEN NoId ELSE ResponseId(l, call_id')
    /\ last' = Step(l, FALSE,
                    CASE l.form = "not_json" ->
                            Response(TRUE, "Failed to parse request body JSON", "")
                      [] l.form = "malformed" ->
                            Response(TRUE, "Received malformed JSON-RPC request", "")
                      [] OTHER -> NoResponse,
                    "none", "none", NoLine)
    /\ UNCHANGED <<ctx_user, password_check, password, authed>>

\* _handle_request lines 348-349 with _handle_rpc.
RpcHandleRequest(l) ==
    /\ ~AwaitingPassword
    /\ l.form = "request"
    /\ resp_id' = ResponseId(l, call_id')
    /\ LET o == HandleRpc(l) IN
        /\ ctx_user' = o.user
        /\ password' = IF password_check # NoCheck THEN ClearedPassword
                       ELSE password
        /\ password_check' = o.result.check_password
        /\ authed' = (authed \/ (o.handler = "auth" /\ o.result.success))
        /\ last' = Step(l, FALSE,
                        Response(~o.result.success, o.result.result,
                                 o.result.about),
                        o.handler, o.call, o.arg)
    /\ UNCHANGED connected

\* One turn of run()'s loop on a line the client sent.
RpcLine ==
    /\ connected
    /\ nLines < MaxLines
    /\ nLines' = nLines + 1
    /\ \E l \in Lines :
        /\ \E id \in CallIds :
             call_id' = IF l.form \in {"request", "malformed"} THEN id ELSE NullId
        /\ \/ RpcCapture(l)
           \/ RpcNotARequest(l)
           \/ RpcHandleRequest(l)
    /\ UNCHANGED notRpc

\* The client hangs up: readline() returns b"" and run() returns.
RpcHangUp ==
    /\ connected
    /\ connected' = FALSE
    /\ UNCHANGED <<ctx_user, password_check, password, authed, last, nLines, call_id,
                   resp_id, notRpc>>

\* No session.
RpcOff ==
    /\ ctx_user = NoUser
    /\ password_check = NoCheck
    /\ password = NoLine
    /\ connected = FALSE
    /\ authed = FALSE
    /\ last = NoStep
    /\ nLines = 0
    /\ call_id = NullId
    /\ resp_id = NoId

(***************************************************************************)
(* The validator runner under supervision (validators/base.py              *)
(* ValidatorRunner, subprocess.py _supervise) with the beacon nodes it     *)
(* chooses from and connect_eth2_node (supervisor.py).                     *)
(*                                                                         *)
(* A beacon node answers GET /eth/v1/node/syncing with                     *)
(*   "synced"    200, a JSON object whose data.is_syncing is false         *)
(*   "unhealthy" another status, is_syncing true, a JSON body of another   *)
(*               shape, a refused connection or a timeout                  *)
(*   "not_json"  200 with a body that is not JSON: response.json() raises  *)
(*               ContentTypeError or JSONDecodeError                       *)
(***************************************************************************)
NumNodes == 2
Nodes == 1 .. NumNodes
Answers == {"synced", "unhealthy", "not_json"}

\* self._beacon_node_port is None
NoNode == 0

\* _beacon_node_healthy: what the probe of a node with this answer does.
\* Only ClientConnectionError and TimeoutError are caught (lines 137-143).
beacon_node_healthy(answer) ==
    CASE answer = "synced" -> "True"
      [] answer = "unhealthy" -> "False"
      [] OTHER -> "raise"

\* One probe of a selection pass: the node, its answer and the outcome.
Probe(n, answer) == [node |-> n, answer |-> answer, result |-> beacon_node_healthy(answer)]

\* No connect_eth2_node call has just been made.
NoConnect == [arg |-> 0, ret |-> "none"]

\* The index of the port map whose host_id is h, 0 if there is none
\* (_prioritize_beacon_node lines 475-478).
IndexOf(list, h) ==
    IF \E i \in 1 .. Len(list) : list[i] = h
    THEN CHOOSE i \in 1 .. Len(list) :
            list[i] = h /\ \A j \in 1 .. (i - 1) : list[j] # h
    ELSE 0

\* list.pop(index)
Pop(list, index) ==
    [i \in 1 .. (Len(list) - 1) |-> IF i < index THEN list[i] ELSE list[i + 1]]

\* A faulty _prioritize_beacon_node that swaps the entry with the first one.
PrioritizeBySwap(list, h) ==
    [i \in 1 .. Len(list) |->
        IF i = 1 THEN h ELSE IF i = IndexOf(list, h) THEN list[1] ELSE list[i]]

\* _prioritize_beacon_node lines 482-483: pop(index), insert(0, port_map).
Prioritize(list, h) == <<h>> \o Pop(list, IndexOf(list, h))

\* SimpleSubprocess.stop(): nothing when self._proc is None, else the stop
\* event is set and the process is sent a terminate signal.
RunnerStop ==
    runner_stop' = IF runner_proc = "none" THEN runner_stop ELSE TRUE

\* The variables of the supervision loop that connect_eth2_node leaves alone.
loopVars == <<nodeAnswer, beacon_node_port, valPc, portIter, probing, probed,
              runner_proc, val_stop_event, monitor, mon_failures, sinceStarted,
              probeStop>>

\* The selection pass in progress began with h and is at its first probe:
\* it iterates the list with h first.
FirstProbeOf(h) == valPc = "probe" /\ portIter = 1 /\ probing = h

(***************************************************************************)
(* connect_eth2_node(h): the port map is moved to the front of the list    *)
(* the validator iterates (the same list object, supervisor.py 400 and     *)
(* 493) and the validator, if there is one, is stopped.                    *)
(***************************************************************************)
Connect(h) ==
    /\ IF IndexOf(beacon_node_port_maps, h) = 0
       THEN UNCHANGED <<beacon_node_port_maps, runner_stop, pending>>
       ELSE /\ beacon_node_port_maps' = Prioritize(beacon_node_port_maps, h)
            /\ IF has_validator
               THEN /\ RunnerStop
                    /\ pending' = IF valPc = "done" THEN pending
                                   ELSE IF FirstProbeOf(h) THEN 0
                                   ELSE h
               ELSE UNCHANGED <<runner_stop, pending>>
    /\ UNCHANGED <<has_validator, loopVars, notVal>>

\* connect_eth2_node(h) called by a test, which sees how the call ended.
ConnectEth2Node(h) ==
    /\ Connect(h)
    /\ connectCall' = [arg |-> h,
                       ret |-> IF IndexOf(beacon_node_port_maps, h) = 0
                               THEN "UnknownNode" ELSE "returned"]

\* connect_eth2_node(h) called by an RPC client while the validator is
\* supervised.
ValConnect(h) ==
    /\ Connect(h)
    /\ UNCHANGED connectCall

\* A faulty _watch_subproc whose only interrupt is the stop event.
InterruptedByStopOnly == val_stop_event

\* _watch_subproc lines 223-226: the stop event or the finished health
\* check task interrupts the wait for watch().
Interrupted == val_stop_event \/ monitor \in {"returned", "raised"}

(***************************************************************************)
(* _supervise line 245-246 and _watch_subproc lines 221-226: started_at is *)
(* taken, the health check task is created and the wait for watch()        *)
(* begins.                                                                 *)
(***************************************************************************)
ValBeginWatch ==
    /\ valPc = "top"
    /\ valPc' = "watch"
    /\ monitor' = "sleeping"
    /\ mon_failures' = 0
    /\ sinceStarted' = 0
    /\ probed' = <<>>
    /\ probeStop' = FALSE
    /\ UNCHANGED connectCall
    /\ UNCHANGED <<beacon_node_port_maps, has_validator, nodeAnswer, beacon_node_port,
                   portIter, probing, runner_proc, runner_stop, val_stop_event,
                   pending, notVal>>

(***************************************************************************)
(* watch() returns: there is no process, the process has exited, or the    *)
(* runner's stop event made watch() terminate it (_robust_terminate, which *)
(* for a docker child ends with the process gone).  either_or_interrupt    *)
(* cancels the health check task.                                          *)
(***************************************************************************)
ValWatchCompleted ==
    /\ valPc \in {"watch", "stopping"}
    /\ runner_proc \in {"none", "exited"} \/ runner_stop
    /\ runner_proc' = "none"
    /\ monitor' = IF monitor = "sleeping" THEN "none" ELSE monitor
    /\ valPc' = "after_watch"
    /\ UNCHANGED connectCall
    /\ UNCHANGED <<beacon_node_port_maps, has_validator, nodeAnswer, beacon_node_port,
                   portIter, probing, probed, runner_stop, val_stop_event,
                   mon_failures, sinceStarted, pending, probeStop, notVal>>

(***************************************************************************)
(* _watch_subproc lines 228-235: an interrupt came first; subproc.stop()   *)
(* is called and watch() is awaited.                                       *)
(***************************************************************************)
ValInterrupted ==
    /\ valPc = "watch"
    /\ runner_proc # "none"
    /\ Interrupted
    /\ RunnerStop
    /\ probeStop' = ~val_stop_event
    /\ monitor' = IF monitor = "sleeping" THEN "none" ELSE monitor
    /\ valPc' = "stopping"
    /\ UNCHANGED connectCall
    /\ UNCHANGED <<beacon_node_port_maps, has_validator, nodeAnswer, beacon_node_port,
                   portIter, probing, probed, runner_proc, val_stop_event,
                   mon_failures, sinceStarted, pending, notVal>>

(***************************************************************************)
(* _supervise lines 247-254: elapsed is taken and, unless the stop event   *)
(* is set, the loop waits on it for what is left of retry_delay.           *)
(***************************************************************************)
ValAfterWatch ==
    /\ valPc = "after_watch"
    /\ valPc' = "idle"
    /\ UNCHANGED connectCall
    /\ UNCHANGED <<beacon_node_port_maps, has_validator, nodeAnswer, beacon_node_port,
                   portIter, probing, probed, runner_proc, runner_stop, val_stop_event,
                   monitor, mon_failures, sinceStarted, pending, probeStop, notVal>>

\* wait_for(stop_event.wait(), timeout=retry_delay - elapsed) timed out, or
\* elapsed was not below retry_delay.
RetryDelayOver == sinceStarted >= RETRY_DELAY

(***************************************************************************)
(* _supervise lines 256-260: the wait is over.  With the stop event set    *)
(* the loop breaks; else start() (subprocess.py 89-101) makes a new        *)
(* runner stop event and _launch begins a selection pass: the list         *)
(* iterator yields the first port map and its probe is awaited.            *)
(***************************************************************************)
ValIdleEnd ==
    /\ valPc = "idle"
    /\ val_stop_event \/ RetryDelayOver
    /\ IF val_stop_event
       THEN /\ valPc' = "done"
            /\ UNCHANGED <<runner_stop, portIter, probing, beacon_node_port, pending>>
       ELSE /\ runner_stop' = FALSE
            /\ IF beacon_node_port_maps = <<>>
               THEN /\ valPc' = "top"
                    /\ beacon_node_port' = NoNode
                    /\ UNCHANGED <<portIter, probing>>
               ELSE /\ valPc' = "probe"
                    /\ portIter' = 1
                    /\ probing' = beacon_node_port_maps[1]
                    /\ UNCHANGED beacon_node_port
            /\ pending' = 0
    /\ UNCHANGED connectCall
    /\ UNCHANGED <<beacon_node_port_maps, has_validator, nodeAnswer, probed,
                   runner_proc, val_stop_event, monitor, mon_failures, sinceStarted,
                   probeStop, notVal>>

(***************************************************************************)
(* _find_healthy_beacon_node lines 81-84 with _launch lines 93-111: the    *)
(* awaited probe ends.  Healthy: the node is bound and the child spawned.  *)
(* Unhealthy: the iterator yields the entry at the next index of the list  *)
(* as it is now, or the pass ends without a node and start() returns       *)
(* without a process.  An exception leaves _launch and start() before      *)
(* self._beacon_node_port or self._proc is assigned; _supervise logs it.   *)
(***************************************************************************)
ValProbe ==
    /\ valPc = "probe"
    /\ LET p == Probe(probing, nodeAnswer[probing]) IN
        /\ probed' = Append(probed, p)
        /\ CASE p.result = "True" ->
                    /\ beacon_node_port' = probing
                    /\ runner_proc' = "running"
                    /\ valPc' = "top"
                    /\ portIter' = 0
                    /\ probing' = NoNode
             [] p.result = "False" /\ portIter < Len(beacon_node_port_maps) ->
                    /\ portIter' = portIter + 1
                    /\ probing' = beacon_node_port_maps[portIter + 1]
                    /\ UNCHANGED <<beacon_node_port, runner_proc, valPc>>
             [] p.result = "False" /\ portIter >= Len(beacon_node_port_maps) ->
                    /\ beacon_node_port' = NoNode
                    /\ valPc' = "top"
                    /\ portIter' = 0
                    /\ probing' = NoNode
                    /\ UNCHANGED runner_proc
             [] OTHER ->
                    /\ valPc' = "top"
                    /\ portIter' = 0
                    /\ probing' = NoNode
                    /\ UNCHANGED <<beacon_node_port, runner_proc>>
    /\ probeStop' = (probeStop /\ valPc' = "probe")
    /\ UNCHANGED connectCall
    /\ UNCHANGED <<beacon_node_port_maps, has_validator, nodeAnswer, runner_stop,
                   val_stop_event, monitor, mon_failures, sinceStarted, pending,
                   notVal>>

\* A faulty monitor() that gives up one failure early.
MonitorContinuesBelow(f, retries) == f < retries

\* HealthCheck.monitor line 211: while failures <= self.retries
MonitorContinues(f, retries) == f <= retries

\* HealthCheck.monitor lines 213-216: the count after a probe.
AfterProbe(f, ok) == IF ok THEN 0 ELSE f + 1

(***************************************************************************)
(* HealthCheck.monitor with _HealthCheck.is_ok (validators/base.py         *)
(* 161-164): one probe of the bound node while watch() is awaited.         *)
(***************************************************************************)
ValHealthProbe ==
    /\ valPc = "watch"
    /\ runner_proc # "none"
    /\ monitor = "sleeping"
    /\ LET is_ok == IF beacon_node_port = NoNode THEN "False"
                    ELSE beacon_node_healthy(nodeAnswer[beacon_node_port])
           f == AfterProbe(mon_failures, is_ok = "True")
       IN IF is_ok = "raise"
          THEN monitor' = "raised" /\ UNCHANGED mon_failures
          ELSE /\ mon_failures' = f
               /\ monitor' = IF MonitorContinues(f, HEALTH_RETRIES)
                             THEN "sleeping" ELSE "returned"
    /\ UNCHANGED connectCall
    /\ UNCHANGED <<beacon_node_port_maps, has_validator, nodeAnswer, beacon_node_port,
                   valPc, portIter, probing, probed, runner_proc, runner_stop,
                   val_stop_event, sinceStarted, pending, probeStop, notVal>>

\* The validator's child exits on its own.
RunnerProcExit ==
    /\ runner_proc = "running"
    /\ runner_proc' = "exited"
    /\ UNCHANGED connectCall
    /\ UNCHANGED <<beacon_node_port_maps, has_validator, nodeAnswer, beacon_node_port,
                   valPc, portIter, probing, probed, runner_stop, val_stop_event,
                   monitor, mon_failures, sinceStarted, pending, probeStop, notVal>>

\* stop_validator line 370: self._validator_stop_event.set()
ValSetStopEvent ==
    /\ valPc # "done"
    /\ ~val_stop_event
    /\ val_stop_event' = TRUE
    /\ UNCHANGED connectCall
    /\ UNCHANGED <<beacon_node_port_maps, has_validator, nodeAnswer, beacon_node_port,
                   valPc, portIter, probing, probed, runner_proc, runner_stop,
                   monitor, mon_failures, sinceStarted, pending, probeStop, notVal>>

\* A beacon node begins to answer differently.
NodeChange(n, a) ==
    /\ nodeAnswer[n] # a
    /\ nodeAnswer' = [nodeAnswer EXCEPT ![n] = a]
    /\ UNCHANGED connectCall
    /\ UNCHANGED <<beacon_node_port_maps, has_validator, beacon_node_port,
                   valPc, portIter, probing, probed, runner_proc, runner_stop,
                   val_stop_event, monitor, mon_failures, sinceStarted, pending,
                   probeStop, notVal>>

\* Time passes: retry_delay seconds have gone by since started_at.
ValTick ==
    /\ valPc \in {"watch", "stopping", "after_watch", "idle"}
    /\ sinceStarted < RETRY_DELAY
    /\ sinceStarted' = RETRY_DELAY
    /\ UNCHANGED connectCall
    /\ UNCHANGED <<beacon_node_port_maps, has_validator, nodeAnswer, beacon_node_port,
                   valPc, portIter, probing, probed, runner_proc, runner_stop,
                   val_stop_event, monitor, mon_failures, pending, probeStop, notVal>>

\* No validator and no port maps.
ValOff ==
    /\ beacon_node_port_maps = <<>>
    /\ has_validator = FALSE
    /\ nodeAnswer = [n \in Nodes |-> "unhealthy"]
    /\ beacon_node_port = NoNode
    /\ valPc = "done"
    /\ portIter = 0
    /\ probing = NoNode
    /\ probed = <<>>
    /\ runner_proc = "none"
    /\ runner_stop = FALSE
    /\ val_stop_event = FALSE
    /\ monitor = "none"
    /\ mon_failures = 0
    /\ sinceStarted = 0
    /\ pending = 0
    /\ probeStop = FALSE
    /\ connectCall = NoConnect

(***************************************************************************)
(* HealthCheck.monitor (subprocess.py 209-217) on its own, for a health    *)
(* check made with any number of retries: each probe succeeds, fails or    *)
(* raises.                                                                 *)
(***************************************************************************)
\* Probes a monitor makes before it is cancelled.
MaxProbes == 6
\* The largest retries a health check is made with.
MaxRetries == 2

\* One turn of monitor()'s loop: sleep(interval), is_ok(), the count.
HcProbe(r) ==
    /\ hc_state = "sleeping"
    /\ Len(hc_results) < MaxProbes
    /\ hc_results' = Append(hc_results, r)
    /\ IF r = "raise"
       THEN hc_state' = "raised" /\ UNCHANGED hc_failures
       ELSE LET f == AfterProbe(hc_failures, r = "True") IN
            /\ hc_failures' = f
            /\ hc_state' = IF MonitorContinues(f, hc_retries)
                           THEN "sleeping" ELSE "returned"
    /\ UNCHANGED <<hc_retries, notHc>>

\* either_or_interrupt cancels the monitor task during its sleep.
HcCancel ==
    /\ hc_state = "sleeping"
    /\ hc_state' = "cancelled"
    /\ UNCHANGED <<hc_retries, hc_failures, hc_results, notHc>>

\* No monitor task.
HcOff ==
    /\ hc_retries = 0
    /\ hc_failures = 0
    /\ hc_state = "none"
    /\ hc_results = <<>>

(***************************************************************************)
(* set_validator_release (supervisor.py lines 377-383) with                *)
(* _create_validator_for_release (lines 485-495) and                       *)
(* create_validator_for_release (validators/__init__.py lines 17-58).      *)
(***************************************************************************)
\* set_validator_release calls in one run.
MaxSetCalls == 3

\* _VALIDATOR_CLASSES.
ImplNames == {"lighthouse", "prysm"}

\* A release: implementation name and version (the checksum goes with them).
Release(impl, version) == [impl_name |-> impl, version |-> version]
NoRelease == Release("none", 0)

\* config.py lines 22-26.
DEFAULT_VALIDATOR_RELEASE == Release("lighthouse", 1)

\* The releases a caller asks for: "teku" has no validator class.
Releases == {Release(i, n) : i \in ImplNames \cup {"teku"}, n \in 1..2}

\* The parameters of create_validator_for_release, none with a default.
CreateParams ==
    <<"release", "eth2_network", "fee_recipient", "datadir", "out_log_filepath",
      "err_log_filepath", "beacon_node_ports", "container_name">>

\* The call at supervisor.py lines 487-495: release, self.eth2_network and
\* the canonical dir by position, the other four by keyword.
CallPositional == 3
CallKeywords == {"out_log_filepath", "err_log_filepath", "beacon_node_ports",
                 "container_name"}

\* Python binds a call when every parameter without a default is given an
\* argument, by position or by keyword; otherwise the call raises TypeError
\* before the function's body runs.
Binds(params, positional, keywords) ==
    \A i \in 1..Len(params) : i <= positional \/ params[i] \in keywords

(***************************************************************************)
(* How _create_validator_for_release(release) ends: TypeError from the     *)
(* call, BadValidatorRelease for a name without a class or a failed docker *)
(* build (validators/__init__.py lines 39-57), or the validator.           *)
(***************************************************************************)
CreateValidator(release, built) ==
    IF ~Binds(CreateParams, CallPositional, CallKeywords) THEN "TypeError"
    ELSE IF release.impl_name \notin ImplNames THEN "BadValidatorRelease"
    ELSE IF ~built THEN "BadValidatorRelease"
    ELSE "made"

NoSetCall ==
    [release |-> NoRelease, built |-> FALSE, running |-> FALSE, result |-> "none",
     memory |-> NoRelease, file |-> NoRelease]

(***************************************************************************)
(* set_validator_release(release), the whole call: ValidatorRunning while  *)
(* a task exists; what _create_validator_for_release raises; else the      *)
(* release is assigned and the dynamic config file is written.  built is   *)
(* whether docker build would succeed.                                     *)
(***************************************************************************)
SetValidatorRelease(release, built) ==
    /\ nSetCalls < MaxSetCalls
    /\ nSetCalls' = nSetCalls + 1
    /\ LET made == IF ValidatorTaskExists THEN "ValidatorRunning"
                   ELSE CreateValidator(release, built)
           result == IF made = "made" THEN "returned" ELSE made
       IN /\ validator_release' = IF made = "made" THEN release ELSE validator_release
          /\ dynamic_config_file' = IF made = "made" THEN release ELSE dynamic_config_file
          /\ relCall' = [release |-> release, built |-> built,
                         running |-> ValidatorTaskExists, result |-> result,
                         memory |-> validator_release, file |-> dynamic_config_file]
    /\ UNCHANGED notRel

(***************************************************************************)
(* unlock (supervisor.py lines 418-431) and KeyDescriptor.open             *)
(* (key_ops.py lines 102-137), and direct calls of start_validator and     *)
(* stop_validator.                                                         *)
(***************************************************************************)
\* The passwords a caller tries; the first is the one the key was made from.
Passwords == {Passphrase, "guess"}
NoPassword == "none"

\* argon2id.kdf(RootKey.SIZE, password, salt, ...) and the BLAKE2b checksum
\* of a key: distinct inputs give distinct outputs.
Kdf(pw) == <<"argon2id", pw>>
Checksum(key) == <<"blake2b", key>>

\* config.key_desc: the commitment to the root key.
key_desc == [checksum |-> Checksum(Kdf(Passphrase))]

\* A faulty open that returns the derived key without check_key.
OpenUnchecked(pw) == Kdf(pw)

\* KeyDescriptor.open: the root key, or IncorrectPassword.
Open(pw) == IF Checksum(Kdf(pw)) = key_desc.checksum THEN Kdf(pw) ELSE "IncorrectPassword"

(***************************************************************************)
(* unlock(password), the whole call: the root key is assigned and True is  *)
(* returned, or IncorrectPassword is caught and False is returned.         *)
(***************************************************************************)
CallUnlock(pw) ==
    /\ pc["main"] = "idle"
    /\ unlock_password' = pw
    /\ root_key' = IF Open(pw) = "IncorrectPassword" THEN root_key ELSE TRUE
    /\ ret' = [ret EXCEPT !["main"] =
                  <<"unlock", IF Open(pw) = "IncorrectPassword" THEN "False" ELSE "True">>]
    /\ UNCHANGED <<now, localFile, remoteFile, dataDir, saveSeq, pc, op, latest_backup,
                   idx, seen, observedMax, handler_lock, notKey>>

\* start_validator and stop_validator called as the tests call them.
CallStart ==
    /\ pc["main"] = "idle"
    /\ NewValidator <= MaxValidators
    /\ StartBegin("main")

CallStop ==
    /\ pc["main"] = "idle"
    /\ StopBegin("main")

\* No unlock call was made.
KeyOff == unlock_password = NoPassword

\* __init__ lines 93-97 when no dynamic config file exists.
RelOff ==
    /\ validator_release = DEFAULT_VALIDATOR_RELEASE
    /\ dynamic_config_file = NoRelease
    /\ relCall = NoSetCall
    /\ nSetCalls = 0

\* run() has not been called: __init__ (lines 99-104) made the scratch dir.
RunOff ==
    /\ tunnels = "new"
    /\ promtails = "new"
    /\ tmpdir = TRUE
    /\ vSaves = [v \in Validators |-> 0]

(***************************************************************************)
(* start_supervised_multi (subprocess.py lines 277-289) on a list of       *)
(* children, the start_supervised coroutines it hands to asyncio.wait, and *)
(* the supervision tasks they create.                                      *)
(***************************************************************************)
\* Children in one list.
MaxSubprocs == 3

\* The orders in which a list can hold the members of the set S.
Orderings(S) ==
    {q \in [1..Cardinality(S) -> S] :
        \A a, b \in 1..Cardinality(S) : a # b => q[a] # q[b]}

\* asyncio.wait(..., return_when=FIRST_COMPLETED).
WaitFirstCompleted(st, n) == \E i \in 1..n : st[i] # "pending"

\* asyncio.wait(..., return_when=FIRST_EXCEPTION): a future has ended by
\* raising, or all have ended.
WaitFirstException(st, n) ==
    \/ \E i \in 1..n : st[i] = "raised"
    \/ \A i \in 1..n : st[i] # "pending"

\* Lines 282-283 and 285-286: an empty list is returned for no children;
\* else the coroutines are made and asyncio.wait is awaited.
MultiCall ==
    /\ multiPc = "call"
    /\ IF subprocs = 0
       THEN /\ multiPc' = "returned"
            /\ UNCHANGED firstStart
       ELSE /\ multiPc' = "wait"
            /\ firstStart' = [i \in 1..MaxSubprocs |->
                                 IF i <= subprocs THEN "pending" ELSE "none"]
    /\ UNCHANGED <<subprocs, multiRet, multiStop, notMulti>>

\* start_supervised lines 272-274: start() raises, or it returns and the
\* supervision task is created.
StartSupervised(i) ==
    /\ firstStart[i] = "pending"
    /\ \E outcome \in {"task", "raised"} : firstStart' = [firstStart EXCEPT ![i] = outcome]
    /\ UNCHANGED <<subprocs, multiPc, multiRet, multiStop, notMulti>>

\* Lines 285-289: asyncio.wait returns the futures that have ended; the
\* result of each is taken, which raises what a future raised.
MultiWaitEnds ==
    /\ multiPc = "wait"
    /\ WaitFirstException(firstStart, subprocs)
    /\ LET tasks_done == {i \in 1..subprocs : firstStart[i] # "pending"} IN
         IF \E i \in tasks_done : firstStart[i] = "raised"
         THEN /\ multiPc' = "raised"
              /\ UNCHANGED multiRet
         ELSE /\ multiPc' = "returned"
              /\ \E q \in Orderings(tasks_done) : multiRet' = q
    /\ UNCHANGED <<subprocs, firstStart, multiStop, notMulti>>

\* The caller sets the stop event of the tasks it was given (run() lines
\* 246 and 251).
MultiStop ==
    /\ multiPc = "returned"
    /\ ~multiStop
    /\ multiStop' = TRUE
    /\ UNCHANGED <<subprocs, firstStart, multiPc, multiRet, notMulti>>

\* _supervise lines 256-257: a supervision task ends on the stop event.
SuperviseEnds(i) ==
    /\ firstStart[i] = "task"
    /\ multiStop
    /\ firstStart' = [firstStart EXCEPT ![i] = "ended"]
    /\ UNCHANGED <<subprocs, multiPc, multiRet, multiStop, notMulti>>

\* No start_supervised_multi call.
MultiOff ==
    /\ subprocs = 0
    /\ firstStart = [i \in 1..MaxSubprocs |-> "none"]
    /\ multiPc = "off"
    /\ multiRet = <<>>
    /\ multiStop = FALSE

(***************************************************************************)
(* One SimpleSubprocess whose owner calls start(), watch() and stop()      *)
(* directly (test_ssh.py lines 58-93): start() while watch() runs or not,  *)
(* stop() at any time, one start() at a time.                              *)
(***************************************************************************)
\* start() calls in one run.
MaxStarts == 3

\* A faulty is_running that asks whether the process is alive.
IsRunningAlive(p) == p = "running"

\* is_running lines 177-178: self._proc is not None.
IsRunning(p) == p # "none"

\* start lines 90-100: raise when running; else open the log files, make
\* a new _stop event and await _launch.
ChildStart ==
    /\ cStartPc = "idle"
    /\ nStarts < MaxStarts
    /\ nStarts' = nStarts + 1
    /\ IF IsRunning(cProc)
       THEN /\ startRet' = "AlreadyRunning"
            /\ UNCHANGED <<cLogs, cStop, cStartPc>>
       ELSE /\ startRet' = "pending"
            /\ cLogs' = TRUE
            /\ cStop' = FALSE
            /\ cStartPc' = "launch"
    /\ UNCHANGED <<cProc, cWatchPc, cLive, cRunStopped, cTermReq, notChild>>

\* start line 101: _launch returns a process or None, or raises.
ChildLaunched ==
    /\ cStartPc = "launch"
    /\ cStartPc' = "idle"
    /\ \E outcome \in {"process", "none", "raise"} :
         /\ startRet' = IF outcome = "raise" THEN "raised" ELSE "None"
         /\ IF outcome = "process"
            THEN /\ cProc' = "running"
                 /\ cLive' = cLive + 1
                 /\ cRunStopped' = FALSE
                 /\ cTermReq' = FALSE
            ELSE /\ cProc' = IF outcome = "none" THEN "none" ELSE cProc
                 /\ UNCHANGED <<cLive, cRunStopped, cTermReq>>
    /\ UNCHANGED <<cStop, cLogs, cWatchPc, nStarts, notChild>>

\* watch lines 109-119: forget the process, close the log files, return.
ChildWatchReturn ==
    /\ cProc' = "none"
    /\ cLogs' = FALSE
    /\ cWatchPc' = "idle"

\* watch lines 104-105 and 112-119: with no process close the log files
\* and return, else wait for the exit or the stop.
ChildWatch ==
    /\ cWatchPc = "idle"
    /\ cStartPc = "idle"
    /\ cProc # "none" \/ cLogs
    /\ IF cProc = "none"
       THEN ChildWatchReturn
       ELSE /\ cWatchPc' = "wait_exit"
            /\ UNCHANGED <<cProc, cLogs>>
    /\ UNCHANGED <<cStop, cStartPc, cLive, cRunStopped, cTermReq, startRet, nStarts,
                   notChild>>

\* watch lines 105-110: the process exited by itself.
ChildWatchExit ==
    /\ cWatchPc = "wait_exit"
    /\ EitherOrInterrupt(cProc = "exited", cStop) = "completed"
    /\ ChildWatchReturn
    /\ UNCHANGED <<cStop, cStartPc, cLive, cRunStopped, cTermReq, startRet, nStarts,
                   notChild>>

\* watch lines 105-107: stop was signalled first, _robust_terminate asks
\* the process to terminate.
ChildWatchStop ==
    /\ cWatchPc = "wait_exit"
    /\ EitherOrInterrupt(cProc = "exited", cStop) = "interrupted"
    /\ cTermReq' = TRUE
    /\ cWatchPc' = "terminating"
    /\ UNCHANGED <<cProc, cStop, cLogs, cStartPc, cLive, cRunStopped, startRet, nStarts,
                   notChild>>

\* _robust_terminate lines 127-156 when the process has exited.
ChildWatchTerminated ==
    /\ cWatchPc = "terminating"
    /\ cProc = "exited"
    /\ ChildWatchReturn
    /\ UNCHANGED <<cStop, cStartPc, cLive, cRunStopped, cTermReq, startRet, nStarts,
                   notChild>>

\* stop lines 161-172 with a process: set _stop, send terminate.
ChildStop ==
    /\ cProc # "none"
    /\ ~cStop
    /\ cStop' = TRUE
    /\ cRunStopped' = TRUE
    /\ UNCHANGED <<cProc, cLogs, cStartPc, cWatchPc, cLive, cTermReq, startRet, nStarts,
                   notChild>>

\* The process ends, by itself or in answer to a signal.
ChildProcExit ==
    /\ cProc = "running"
    /\ cProc' = "gone"
    /\ cLive' = cLive - 1
    /\ UNCHANGED <<cStop, cLogs, cStartPc, cWatchPc, cRunStopped, cTermReq, startRet,
                   nStarts, notChild>>

\* asyncio's child watcher reaps the process: proc.wait() completes.
ChildExitNoticed ==
    /\ cProc = "gone"
    /\ cProc' = "exited"
    /\ UNCHANGED <<cStop, cLogs, cStartPc, cWatchPc, cLive, cRunStopped, cTermReq,
                   startRet, nStarts, notChild>>

\* __init__ lines 84-87: no process, no log files, a fresh _stop event.
ChildOff ==
    /\ cProc = "none"
    /\ cStop = FALSE
    /\ cLogs = FALSE
    /\ cStartPc = "idle"
    /\ cWatchPc = "idle"
    /\ cLive = 0
    /\ cRunStopped = FALSE
    /\ cTermReq = FALSE
    /\ startRet = "none"
    /\ nStarts = 0

(***************************************************************************)
(* The RPC server with two client connections (rpc/server.py): each        *)
(* session reads a request, takes the handler lock, runs the operation's   *)
(* handler, which calls the target, and writes the response; stop() sets   *)
(* the sessions' exit event and closes the listening socket.               *)
(***************************************************************************)
\* Request lines read in one run.
MaxSessReqs == 3

NoReq == [id |-> 0, method |-> "none"]
NoResp == [id |-> 0, is_error |-> FALSE, result |-> "none"]

\* JsonRpcResponse(request.call_id, result.result, is_error=not success)
SessResponse(id, success, result) == [id |-> id, is_error |-> ~success, result |-> result]

\* A faulty _handle_rpc that releases the lock only when the handler returns.
ReleasedUnlessRaised(s, outcome) == IF outcome = "raised" THEN s ELSE "free"

\* _handle_rpc lines 383-384: `async with self._handler_lock` releases the
\* lock however the handler ends.
Released(s, outcome) == "free"

\* _client_connected lines 260-269: a client connects to the listening
\* socket and its session runs.
SessConnect(s) ==
    /\ sListening
    /\ sPc[s] = "none"
    /\ sPc' = [sPc EXCEPT ![s] = "read"]
    /\ UNCHANGED <<sLock, sUser, sReq, sResp, sOutcome, sListening, sExit, sLate, nStops,
                   nSessReqs, notSess>>

\* run lines 312-325 and _handle_rpc lines 373-381: a request line is read;
\* an operation that needs authentication is refused on a session without
\* a user, else the session goes to acquire the handler lock.
SessRequest(s, id, method) ==
    /\ sPc[s] = "read"
    /\ ~sExit
    /\ nSessReqs < MaxSessReqs
    /\ nSessReqs' = nSessReqs + 1
    /\ IF sUser[s] = NoUser /\ Authenticated(method)
       THEN /\ sResp' = [sResp EXCEPT ![s] = SessResponse(id, FALSE, "requires authentication")]
            /\ UNCHANGED <<sPc, sReq>>
       ELSE /\ sPc' = [sPc EXCEPT ![s] = "lock_wait"]
            /\ sReq' = [sReq EXCEPT ![s] = [id |-> id, method |-> method]]
            /\ UNCHANGED sResp
    /\ UNCHANGED <<sLock, sUser, sOutcome, sListening, sExit, sLate, nStops, notSess>>

\* _handle_rpc lines 383-384: the lock is acquired and the handler runs up
\* to its call on the target.
SessAcquire(s) ==
    /\ sPc[s] = "lock_wait"
    /\ sLock = "free"
    /\ sLock' = s
    /\ sPc' = [sPc EXCEPT ![s] = "handle"]
    /\ sLate' = (sLate \/ sExit)
    /\ UNCHANGED <<sUser, sReq, sResp, sOutcome, sListening, sExit, nStops, nSessReqs,
                   notSess>>

\* _handle_rpc lines 384-387, _handle_request lines 348-349 and run lines
\* 325-327: the handler returns its result or raises, the lock is
\* released and the response is written.
SessHandled(s) ==
    /\ sPc[s] = "handle"
    /\ \E outcome \in {"returned", "refused", "raised"} :
         /\ outcome = "refused" => sReq[s].method = "auth"
         /\ sOutcome' = [sOutcome EXCEPT ![s] = outcome]
         /\ sLock' = Released(s, outcome)
         /\ sResp' = [sResp EXCEPT ![s] =
                         CASE outcome = "raised" -> SessResponse(sReq[s].id, FALSE, "repr(err)")
                           [] outcome = "refused" -> SessResponse(sReq[s].id, FALSE, "denied")
                           [] OTHER -> SessResponse(sReq[s].id, TRUE, sReq[s].method)]
         /\ sUser' = [sUser EXCEPT ![s] =
                         IF outcome = "returned" /\ sReq[s].method = "auth"
                         THEN "admin" ELSE @]
    /\ sPc' = [sPc EXCEPT ![s] = "read"]
    /\ sReq' = [sReq EXCEPT ![s] = NoReq]
    /\ UNCHANGED <<sListening, sExit, sLate, nStops, nSessReqs, notSess>>

\* run lines 312-316 and 328-330: the exit event ends the wait for a line;
\* the writer is closed and the client reads end-of-file.
SessExit(s) ==
    /\ sPc[s] = "read"
    /\ sExit
    /\ sPc' = [sPc EXCEPT ![s] = "ended"]
    /\ UNCHANGED <<sLock, sUser, sReq, sResp, sOutcome, sListening, sExit, sLate, nStops,
                   nSessReqs, notSess>>

\* RpcServer.stop lines 250-258: nothing without a server; else set the
\* sessions' exit event and close the listening socket.
SessStop ==
    /\ nStops < 2
    /\ nStops' = nStops + 1
    /\ IF sListening
       THEN sExit' = TRUE /\ sListening' = FALSE
       ELSE UNCHANGED <<sExit, sListening>>
    /\ UNCHANGED <<sPc, sLock, sUser, sReq, sResp, sOutcome, sLate, nSessReqs, notSess>>

\* No RPC server.
SessOff ==
    /\ sPc = [s \in Sessions |-> "none"]
    /\ sLock = "free"
    /\ sUser = [s \in Sessions |-> NoUser]
    /\ sReq = [s \in Sessions |-> NoReq]
    /\ sResp = [s \in Sessions |-> NoResp]
    /\ sOutcome = [s \in Sessions |-> "none"]
    /\ sListening = FALSE
    /\ sExit = FALSE
    /\ sLate = FALSE
    /\ nStops = 0
    /\ nSessReqs = 0

(***************************************************************************)
(* check_host_key (ssh.py lines 147-175) called by the tunnels' _launch    *)
(* and by copy_file on the SSH clients of two nodes, which share one       *)
(* known-hosts file and one lock (supervisor.py lines 106-107, 152-155).   *)
(***************************************************************************)
\* check_host_key calls in one run.
MaxChecks == 4

\* The callers: the tunnel and a file copy of node 1, the tunnel of node 2.
Checkers == {"tunnel1", "scp1", "tunnel2"}

\* The node whose SSHClient a caller uses.
HostOf(c) == IF c = "tunnel2" THEN 2 ELSE 1

\* _configured_pubkey: node 1 has a public key configured, node 2 none.
ConfiguredPubkey(h) == IF h = 1 THEN "pinned" ELSE "none"

\* A faulty check that goes on without holding the lock.
KhNotTaken(c) == "free"

\* line 148: `async with self.known_hosts_lock` holds the lock.
KhTaken(c) == c

\* The check of caller c ends with result r: the lock is released.
KhReturn(c, r) ==
    /\ khPc' = [khPc EXCEPT ![c] = "idle"]
    /\ khRet' = [khRet EXCEPT ![c] = r]
    /\ khLock' = "free"

\* _register_host_key lines 177-185 up to the first await: the configured
\* key is appended, or ssh-keyscan is started.
KhRegister(c, file) ==
    IF ConfiguredPubkey(HostOf(c)) # "none"
    THEN /\ khFile' = [file EXCEPT ![HostOf(c)] = Append(@, ConfiguredPubkey(HostOf(c)))]
         /\ KhReturn(c, "True")
    ELSE /\ khFile' = file
         /\ khPc' = [khPc EXCEPT ![c] = "keyscan"]
         /\ UNCHANGED <<khRet, khLock>>

\* check_host_key is called and waits for the lock.
KhCall(c) ==
    /\ khPc[c] = "idle"
    /\ nChecks < MaxChecks
    /\ nChecks' = nChecks + 1
    /\ khPc' = [khPc EXCEPT ![c] = "wait"]
    /\ UNCHANGED <<khLock, khFile, khRet, notKh>>

\* lines 148-153: the lock is acquired and ssh-keygen -F is started.
KhAcquire(c) ==
    /\ khPc[c] = "wait"
    /\ khLock = "free"
    /\ khLock' = KhTaken(c)
    /\ khPc' = [khPc EXCEPT ![c] = "lookup"]
    /\ UNCHANGED <<khFile, khRet, nChecks, notKh>>

\* lines 154-169: ssh-keygen -F has ended: an entry with the configured key,
\* or any entry when none is configured, is accepted; another entry is
\* removed with ssh-keygen -R; with no entry the key is registered.
KhLookedUp(c) ==
    /\ khPc[c] = "lookup"
    /\ LET entries == khFile[HostOf(c)]
           key == ConfiguredPubkey(HostOf(c)) IN
        IF entries # <<>>
        THEN IF key = "none" \/ \E i \in 1..Len(entries) : entries[i] = key
             THEN KhReturn(c, "True") /\ UNCHANGED khFile
             ELSE /\ khPc' = [khPc EXCEPT ![c] = "remove"]
                  /\ UNCHANGED <<khFile, khRet, khLock>>
        ELSE KhRegister(c, khFile)
    /\ UNCHANGED <<nChecks, notKh>>

\* lines 165-169: ssh-keygen -R has removed the host's lines; then the key
\* is registered.
KhRemoved(c) ==
    /\ khPc[c] = "remove"
    /\ KhRegister(c, [khFile EXCEPT ![HostOf(c)] = <<>>])
    /\ UNCHANGED <<nChecks, notKh>>

\* lines 171-175 and _ssh_keyscan lines 187-198: the scan's output is
\* appended and True returned, or SSHKeyscanFailure is caught and False
\* returned.
KhKeyscanned(c) ==
    /\ khPc[c] = "keyscan"
    /\ \E scanned \in BOOLEAN :
         IF scanned
         THEN /\ khFile' = [khFile EXCEPT ![HostOf(c)] = Append(@, "scanned")]
              /\ KhReturn(c, "True")
         ELSE /\ KhReturn(c, "False")
              /\ UNCHANGED khFile
    /\ UNCHANGED <<nChecks, notKh>>

\* No host-key check.
KhOff ==
    /\ khPc = [c \in Checkers |-> "idle"]
    /\ khLock = "free"
    /\ khFile = [h \in {1, 2} |-> <<>>]
    /\ khRet = [c \in Checkers |-> "none"]
    /\ nChecks = 0

(***************************************************************************)
(* BackupArchive.lock and BackupArchive.unlock (backup_archive.py lines    *)
(* 54-90) on byte strings: the plaintext is the timestamp as four bytes,   *)
(* little-endian, followed by the data; SecretBox is an authenticated      *)
(* cipher, modelled as a box that opens only with its key and nonce.       *)
(***************************************************************************)
ArchiveKeys == {"K1", "K2"}
ArchiveNonces == {1, 2}
ArchiveTimestamps == {0, 1, 256, 65537, 1700000000}
ArchiveData == {<<>>, <<0>>, <<1, 0, 0, 0>>, <<7, 9>>}

\* BackupArchive(data, timestamp)
BackupArchive(data, timestamp) == [data |-> data, timestamp |-> timestamp]

\* struct.pack("<I", n)
StructPack(n) ==
    <<n % 256, (n \div 256) % 256, (n \div 65536) % 256, (n \div 16777216) % 256>>

\* A faulty decoding that reads the four bytes most significant first.
StructUnpackBigEndian(b) == 16777216 * b[1] + 65536 * b[2] + 256 * b[3] + b[4]

\* struct.unpack("<I", b)
StructUnpack(b) == b[1] + 256 * b[2] + 65536 * b[3] + 16777216 * b[4]

\* SecretBox(key).encrypt(plaintext): the nonce and the ciphertext.
SecretBoxEncrypt(key, nonce, plaintext) ==
    [nonce |-> nonce,
     ciphertext |-> [key |-> key, nonce |-> nonce, plaintext |-> plaintext]]

\* SecretBox(key).decrypt(ciphertext, nonce): the plaintext, or CryptoError.
SecretBoxDecrypt(key, ciphertext, nonce) ==
    IF ciphertext.key = key /\ ciphertext.nonce = nonce
    THEN [ok |-> TRUE, plaintext |-> ciphertext.plaintext]
    ELSE [ok |-> FALSE, plaintext |-> <<>>]

\* lock lines 62-67: what is written to dst.
lock(archive, key, nonce) ==
    SecretBoxEncrypt(key, nonce, StructPack(archive.timestamp) \o archive.data)

\* unlock lines 81-90
unlock(key, src) ==
    LET opened == SecretBoxDecrypt(key, src.ciphertext, src.nonce) IN
    IF ~opened.ok
    THEN [raised |-> "LockedArchiveCorrupted", archive |-> BackupArchive(<<>>, 0)]
    ELSE [raised |-> "none",
          archive |-> BackupArchive(SubSeq(opened.plaintext, 5, Len(opened.plaintext)),
                                    StructUnpack(SubSeq(opened.plaintext, 1, 4)))]

NoLocked == SecretBoxEncrypt("none", 0, <<>>)
NoUnlocked == [raised |-> "none", archive |-> BackupArchive(<<>>, 0)]

\* archive.lock(key, dst)
BaLock(nonce) ==
    /\ baPc = "new"
    /\ baPc' = "locked"
    /\ baLocked' = lock(baArchive, baKey, nonce)
    /\ UNCHANGED <<baKey, baArchive, baTampered, baKey2, baResult, notBa>>

\* The stored bytes are changed: the box no longer opens with any key.
BaTamper ==
    /\ baPc = "locked"
    /\ ~baTampered
    /\ baTampered' = TRUE
    /\ baLocked' = [baLocked EXCEPT !.ciphertext.key = "garbled"]
    /\ UNCHANGED <<baPc, baKey, baArchive, baKey2, baResult, notBa>>

\* BackupArchive.unlock(key, src)
BaUnlock(key) ==
    /\ baPc = "locked"
    /\ baPc' = "unlocked"
    /\ baKey2' = key
    /\ baResult' = unlock(key, baLocked)
    /\ UNCHANGED <<baKey, baArchive, baLocked, baTampered, notBa>>

\* No archive.
BaOff ==
    /\ baPc = "off"
    /\ baKey = "none"
    /\ baArchive = BackupArchive(<<>>, 0)
    /\ baLocked = NoLocked
    /\ baTampered = FALSE
    /\ baKey2 = "none"
    /\ baResult = NoUnlocked

\* The machines of the single calls, at rest.
LateOff == ChildOff /\ SessOff /\ KhOff /\ BaOff

\* The machines added to the first three, at rest.
ExtOff == RpcOff /\ ValOff /\ HcOff /\ RunOff /\ RelOff /\ KeyOff /\ MultiOff /\ LateOff

\* The supervised-child machine at rest.
SupOff ==
    /\ kind = "validator"
    /\ stop_event = FALSE
    /\ supPc = "done"
    /\ watchPc = "none"
    /\ proc = "none"
    /\ stop = FALSE
    /\ failures = 0
    /\ sinceStart = 0
    /\ elapsed = 0
    /\ idleWaited = 0
    /\ graceWaited = 0
    /\ termReqs = 0
    /\ killSent = FALSE
    /\ sinceTermReq = 0
    /\ sigAfterExit = FALSE

(***************************************************************************)
(* ValidatorSupervisorTest.setUp: an unlocked supervisor, nothing          *)
(* unpacked yet; on the disk and on each node no file, a damaged one or an *)
(* archive sealed in the past.                                             *)
(***************************************************************************)
InitBackup ==
    /\ SupOff
    /\ ExtOff
    /\ DaemonOff
    /\ handler_lock = "free"
    /\ now = MaxInitTs
    /\ root_key = TRUE
    /\ localFile \in InitFileValues(0)
    /\ remoteFile \in [Remotes -> UNION {InitFileValues(r) : r \in Remotes}]
    /\ \A r \in Remotes : remoteFile[r] \in InitFileValues(r)
    /\ dataDir = EmptyDir
    /\ saveSeq = 0
    /\ pc = [t \in Tasks |-> IF t = "main" THEN "idle" ELSE "off"]
    /\ op = [t \in Tasks |-> "none"]
    /\ ret = [t \in Tasks |-> <<"none", "none">>]
    /\ latest_backup = [t \in Tasks |-> None]
    /\ idx = [t \in Tasks |-> 0]
    /\ seen = [t \in Tasks |-> <<>>]
    /\ observedMax = 0

NextBackup ==
    \/ CallLoad
    \/ CallSave
    \/ LoadDownload("main")
    \/ SaveUpload("main")
    \/ ClockTick

SpecBackup == InitBackup /\ [][NextBackup]_vars

(***************************************************************************)
(* run() after lines 209-224 (RPC server listening, tunnels and log        *)
(* shippers supervised), started by __main__.py with the root key read     *)
(* from disk: nothing unpacked, an older archive or none on the disk, a    *)
(* newer one or none on the first node.                                    *)
(***************************************************************************)
InitDaemon ==
    /\ SupOff
    /\ RpcOff
    /\ ValOff
    /\ HcOff
    /\ RelOff
    /\ KeyOff
    /\ MultiOff
    /\ LateOff
    /\ tunnels = "running"
    /\ promtails = "running"
    /\ tmpdir = TRUE
    /\ vSaves = [v \in Validators |-> 0]
    /\ now = MaxInitTs
    /\ root_key = TRUE
    /\ localFile \in {Absent, Archive(1, 1, InitFilesOf(0))}
    /\ remoteFile \in {[r \in Remotes |-> IF r = 1 THEN f ELSE Absent] :
                          f \in {Absent, Archive(MaxInitTs, 2, InitFilesOf(1))}}
    /\ dataDir = EmptyDir
    /\ saveSeq = 0
    /\ pc = [t \in Tasks |-> IF t = "main" THEN "boot" ELSE "idle"]
    /\ op = [t \in Tasks |-> "none"]
    /\ ret = [t \in Tasks |-> <<"none", "none">>]
    /\ latest_backup = [t \in Tasks |-> None]
    /\ idx = [t \in Tasks |-> 0]
    /\ seen = [t \in Tasks |-> <<>>]
    /\ observedMax = 0
    /\ handler_lock = "free"
    /\ validator_task = 0
    /\ validator = 0
    /\ validator_stop_event = 0
    /\ eventSet = [e \in {0} \cup Validators |-> FALSE]
    /\ vChild = [v \in Validators |-> "none"]
    /\ vTask = [v \in Validators |-> "none"]
    /\ vLoad = [v \in Validators |-> "none"]
    /\ mine = [t \in Tasks |-> 0]
    /\ exit_event = FALSE
    /\ rpc_server = TRUE
    /\ nRequests = 0

NextDaemon ==
    \/ MainStartValidator
    \/ MainExit
    \/ MainStopValidator
    \/ MainStopPromtails
    \/ MainStopTunnels
    \/ MainCleanup
    \/ \E s \in Sessions : \E method \in {"start_validator", "stop_validator"} :
          RpcRequest(s, method)
    \/ \E s \in Sessions : RpcHandle(s)
    \/ \E t \in Tasks : LoadDownload(t)
    \/ \E t \in Tasks : StartCreated(t)
    \/ \E t \in Tasks : StartLaunched(t)
    \/ \E t \in Tasks : StopJoined(t)
    \/ \E t \in Tasks : SaveUpload(t)
    \/ \E v \in Validators : VChildExit(v)
    \/ \E v \in Validators : VRestart(v)
    \/ \E v \in Validators : VTaskEnd(v)
    \/ ExitSignal
    \/ LocalBackupLost

SpecDaemon == InitDaemon /\ [][NextDaemon]_vars

(***************************************************************************)
(* run() from its call by __main__.py, the root key read from disk:        *)
(* nothing started, log shippers enabled or not, nothing unpacked, an      *)
(* archive on the disk and none on the nodes.                              *)
(***************************************************************************)
InitRun ==
    /\ SupOff
    /\ RpcOff
    /\ ValOff
    /\ HcOff
    /\ RelOff
    /\ KeyOff
    /\ MultiOff
    /\ LateOff
    /\ DaemonOff
    /\ tunnels = "new"
    /\ promtails \in {"new", "disabled"}
    /\ tmpdir = TRUE
    /\ vSaves = [v \in Validators |-> 0]
    /\ now = MaxInitTs
    /\ root_key = TRUE
    /\ localFile = Archive(1, 1, InitFilesOf(0))
    /\ remoteFile = [r \in Remotes |-> Absent]
    /\ dataDir = EmptyDir
    /\ saveSeq = 0
    /\ pc = [t \in Tasks |-> IF t = "main" THEN "start" ELSE "idle"]
    /\ op = [t \in Tasks |-> "none"]
    /\ ret = [t \in Tasks |-> <<"none", "none">>]
    /\ latest_backup = [t \in Tasks |-> None]
    /\ idx = [t \in Tasks |-> 0]
    /\ seen = [t \in Tasks |-> <<>>]
    /\ observedMax = 0
    /\ handler_lock = "free"

NextRun ==
    \/ MainStartRpc
    \/ MainStartTunnels
    \/ MainStartPromtails
    \/ NextDaemon

SpecRun == InitRun /\ [][NextRun]_vars

\* start_supervised_multi called with up to MaxSubprocs children.
InitMulti ==
    /\ SupOff
    /\ BakOff
    /\ DaemonOff
    /\ RpcOff
    /\ ValOff
    /\ HcOff
    /\ RunOff
    /\ RelOff
    /\ KeyOff
    /\ LateOff
    /\ subprocs \in 0..MaxSubprocs
    /\ firstStart = [i \in 1..MaxSubprocs |-> "none"]
    /\ multiPc = "call"
    /\ multiRet = <<>>
    /\ multiStop = FALSE

NextMulti ==
    \/ MultiCall
    \/ \E i \in 1..MaxSubprocs : StartSupervised(i)
    \/ MultiWaitEnds
    \/ MultiStop
    \/ \E i \in 1..MaxSubprocs : SuperviseEnds(i)

SpecMulti == InitMulti /\ [][NextMulti]_vars

\* A new SimpleSubprocess.
InitChild ==
    /\ SupOff
    /\ BakOff
    /\ DaemonOff
    /\ RpcOff
    /\ ValOff
    /\ HcOff
    /\ RunOff
    /\ RelOff
    /\ KeyOff
    /\ MultiOff
    /\ ChildOff
    /\ SessOff
    /\ KhOff
    /\ BaOff

NextChild ==
    \/ ChildStart
    \/ ChildLaunched
    \/ ChildWatch
    \/ ChildWatchExit
    \/ ChildWatchStop
    \/ ChildWatchTerminated
    \/ ChildStop
    \/ ChildProcExit
    \/ ChildExitNoticed

SpecChild == InitChild /\ [][NextChild]_vars

\* RpcServer.start lines 240-248 has returned: the server listens.
InitSess ==
    /\ SupOff
    /\ BakOff
    /\ DaemonOff
    /\ RpcOff
    /\ ValOff
    /\ HcOff
    /\ RunOff
    /\ RelOff
    /\ KeyOff
    /\ MultiOff
    /\ ChildOff
    /\ KhOff
    /\ BaOff
    /\ sPc = [s \in Sessions |-> "none"]
    /\ sLock = "free"
    /\ sUser = [s \in Sessions |-> NoUser]
    /\ sReq = [s \in Sessions |-> NoReq]
    /\ sResp = [s \in Sessions |-> NoResp]
    /\ sOutcome = [s \in Sessions |-> "none"]
    /\ sListening = TRUE
    /\ sExit = FALSE
    /\ sLate = FALSE
    /\ nStops = 0
    /\ nSessReqs = 0

NextSess ==
    \/ \E s \in Sessions : SessConnect(s)
    \/ \E s \in Sessions : \E id \in CallIds : \E method \in {"auth", "get_health"} :
          SessRequest(s, id, method)
    \/ \E s \in Sessions : SessAcquire(s)
    \/ \E s \in Sessions : SessHandled(s)
    \/ \E s \in Sessions : SessExit(s)
    \/ SessStop

SpecSess == InitSess /\ [][NextSess]_vars

\* A known-hosts file with no line for a node, with the line of the key
\* configured for node 1, or with a line of another key.
InitKh ==
    /\ SupOff
    /\ BakOff
    /\ DaemonOff
    /\ RpcOff
    /\ ValOff
    /\ HcOff
    /\ RunOff
    /\ RelOff
    /\ KeyOff
    /\ MultiOff
    /\ ChildOff
    /\ SessOff
    /\ BaOff
    /\ khPc = [c \in Checkers |-> "idle"]
    /\ khLock = "free"
    /\ khFile \in [{1, 2} -> {<<>>, <<"pinned">>, <<"stale">>}]
    /\ khRet = [c \in Checkers |-> "none"]
    /\ nChecks = 0

NextKh ==
    \/ \E c \in Checkers : KhCall(c)
    \/ \E c \in Checkers : KhAcquire(c)
    \/ \E c \in Checkers : KhLookedUp(c)
    \/ \E c \in Checkers : KhRemoved(c)
    \/ \E c \in Checkers : KhKeyscanned(c)

SpecKh == InitKh /\ [][NextKh]_vars

\* Any archive and any key.
InitBa ==
    /\ SupOff
    /\ BakOff
    /\ DaemonOff
    /\ RpcOff
    /\ ValOff
    /\ HcOff
    /\ RunOff
    /\ RelOff
    /\ KeyOff
    /\ MultiOff
    /\ ChildOff
    /\ SessOff
    /\ KhOff
    /\ baPc = "new"
    /\ baKey \in ArchiveKeys
    /\ baArchive \in {BackupArchive(d, t) : d \in ArchiveData, t \in ArchiveTimestamps}
    /\ baLocked = NoLocked
    /\ baTampered = FALSE
    /\ baKey2 = "none"
    /\ baResult = NoUnlocked

NextBa ==
    \/ \E nonce \in ArchiveNonces : BaLock(nonce)
    \/ BaTamper
    \/ \E key \in ArchiveKeys : BaUnlock(key)

SpecBa == InitBa /\ [][NextBa]_vars

(***************************************************************************)
(* start_supervised (lines 266-274): the first start() has returned and    *)
(* the supervision task has been created.                                  *)
(***************************************************************************)
InitSupVars ==
    /\ kind \in Kinds
    /\ stop_event = FALSE
    /\ supPc = "top"
    /\ watchPc = "none"
    /\ proc \in {"running"} \cup (IF kind = "promtail" THEN {} ELSE {"none"})
    /\ stop = FALSE
    /\ failures = 0
    /\ sinceStart = 0
    /\ elapsed = 0
    /\ idleWaited = 0
    /\ graceWaited = 0
    /\ termReqs = 0
    /\ killSent = FALSE
    /\ sinceTermReq = 0
    /\ sigAfterExit = FALSE

SupStep ==
    \/ SupBeginWatch \/ SupWatchCompleted \/ SupInterrupted \/ SupWatchAwaited
    \/ SupIdleEnd \/ SupStartReturns

WatchStep ==
    \/ WatchExitObserved \/ WatchStopObserved \/ WatchCommunicateDone
    \/ WatchGrace1 \/ WatchGrace2 \/ WatchKillAwaited

NextSup ==
    \/ SupStep \/ WatchStep
    \/ ProcExit \/ ProcKilled \/ ExitNoticed
    \/ SetStopEvent \/ HealthProbe \/ ExternalStop
    \/ Tick

InitSup == InitSupVars /\ BakOff /\ DaemonOff /\ ExtOff

SpecSup == InitSup /\ [][NextSup]_vars

(***************************************************************************)
(* The event loop runs every task that can run, timers fire, the child     *)
(* watcher reaps dead children and a killed process dies.  Nothing obliges *)
(* a process to exit on its own or to honour a terminate request.          *)
(***************************************************************************)
FairSpecSup ==
    /\ SpecSup
    /\ WF_vars(SupStep)
    /\ WF_vars(WatchStep)
    /\ WF_vars(ExitNoticed)
    /\ WF_vars(ProcKilled)
    /\ WF_vars(Tick)

(***************************************************************************)
(* test_server.py setUp: a client has connected and nothing was sent yet.  *)
(***************************************************************************)
InitRpc ==
    /\ SupOff
    /\ RunOff
    /\ RelOff
    /\ KeyOff
    /\ MultiOff
    /\ LateOff
    /\ BakOff
    /\ DaemonOff
    /\ ValOff
    /\ HcOff
    /\ ctx_user = NoUser
    /\ password_check = NoCheck
    /\ password = NoLine
    /\ connected = TRUE
    /\ authed = FALSE
    /\ last = NoStep
    /\ nLines = 0
    /\ call_id = NullId
    /\ resp_id = NoId

NextRpc ==
    \/ RpcLine
    \/ RpcHangUp

SpecRpc == InitRpc /\ [][NextRpc]_vars

(***************************************************************************)
(* The validator's supervision task has been created by start_supervised   *)
(* after a first start() that found no healthy beacon node.                *)
(***************************************************************************)
InitVal ==
    /\ SupOff
    /\ RunOff
    /\ RelOff
    /\ KeyOff
    /\ MultiOff
    /\ LateOff
    /\ BakOff
    /\ DaemonOff
    /\ RpcOff
    /\ HcOff
    /\ beacon_node_port_maps = [i \in Nodes |-> i]
    /\ has_validator = TRUE
    /\ nodeAnswer = [n \in Nodes |-> "unhealthy"]
    /\ beacon_node_port = NoNode
    /\ valPc = "top"
    /\ portIter = 0
    /\ probing = NoNode
    /\ probed = <<>>
    /\ runner_proc = "none"
    /\ runner_stop = FALSE
    /\ val_stop_event = FALSE
    /\ monitor = "none"
    /\ mon_failures = 0
    /\ sinceStarted = 0
    /\ pending = 0
    /\ probeStop = FALSE
    /\ connectCall = NoConnect

\* The steps of the _supervise task.
ValStep ==
    \/ ValBeginWatch
    \/ ValWatchCompleted
    \/ ValInterrupted
    \/ ValAfterWatch
    \/ ValIdleEnd
    \/ ValProbe

NextVal ==
    \/ ValStep
    \/ ValHealthProbe
    \/ ValTick
    \/ RunnerProcExit
    \/ ValSetStopEvent
    \/ \E n \in Nodes, a \in Answers : NodeChange(n, a)
    \/ \E h \in Nodes : ValConnect(h)

SpecVal == InitVal /\ [][NextVal]_vars

(***************************************************************************)
(* The event loop runs the supervision task whenever it can run, probes    *)
(* end (the HTTP client times out) and time passes.  Nothing obliges a     *)
(* node to become healthy, the child to exit or a client to call.          *)
(***************************************************************************)
FairSpecVal ==
    /\ SpecVal
    /\ WF_vars(ValStep)
    /\ WF_vars(ValTick)

(***************************************************************************)
(* test_supervisor.py test_connect_eth2_node: connect_eth2_node called on  *)
(* a supervisor with any list of port maps, with or without a validator.   *)
(***************************************************************************)
MaxPortMaps == 3

InitConnect ==
    /\ SupOff
    /\ RunOff
    /\ RelOff
    /\ KeyOff
    /\ MultiOff
    /\ LateOff
    /\ BakOff
    /\ DaemonOff
    /\ RpcOff
    /\ HcOff
    /\ beacon_node_port_maps \in
            {l \in UNION {[1 .. k -> 1 .. MaxPortMaps] : k \in 0 .. MaxPortMaps} :
                \A i, j \in 1 .. Len(l) : l[i] = l[j] => i = j}
    /\ has_validator \in BOOLEAN
    /\ runner_proc \in (IF has_validator THEN {"none", "running"} ELSE {"none"})
    /\ valPc = IF has_validator THEN "watch" ELSE "done"
    /\ nodeAnswer = [n \in Nodes |-> "unhealthy"]
    /\ beacon_node_port = NoNode
    /\ portIter = 0
    /\ probing = NoNode
    /\ probed = <<>>
    /\ runner_stop = FALSE
    /\ val_stop_event = FALSE
    /\ monitor = "none"
    /\ mon_failures = 0
    /\ sinceStarted = 0
    /\ pending = 0
    /\ probeStop = FALSE
    /\ connectCall = NoConnect

NextConnect == \E h \in 1 .. (MaxPortMaps + 1) : ConnectEth2Node(h)

SpecConnect == InitConnect /\ [][NextConnect]_vars

(***************************************************************************)
(* A monitor task just created, for a health check with any retries.       *)
(***************************************************************************)
InitMonitor ==
    /\ SupOff
    /\ RunOff
    /\ RelOff
    /\ KeyOff
    /\ MultiOff
    /\ LateOff
    /\ BakOff
    /\ DaemonOff
    /\ RpcOff
    /\ ValOff
    /\ hc_retries \in 0 .. MaxRetries
    /\ hc_failures = 0
    /\ hc_state = "sleeping"
    /\ hc_results = <<>>

NextMonitor ==
    \/ \E r \in {"True", "False", "raise"} : HcProbe(r)
    \/ HcCancel

SpecMonitor == InitMonitor /\ [][NextMonitor]_vars

(***************************************************************************)
(* A supervisor as __init__ leaves it (lines 93-97: the release of the     *)
(* dynamic config file, or the default one when there is no file), with or *)
(* without a validator supervision task.                                   *)
(***************************************************************************)
InitRelease ==
    /\ SupOff
    /\ BakOff
    /\ RpcOff
    /\ ValOff
    /\ HcOff
    /\ RunOff
    /\ KeyOff
    /\ MultiOff
    /\ LateOff
    /\ validator_task \in {0, 1}
    /\ validator = validator_task
    /\ validator_stop_event = validator_task
    /\ eventSet = [e \in {0} \cup Validators |-> FALSE]
    /\ vChild = [v \in Validators |-> IF v = validator_task THEN "running" ELSE "none"]
    /\ vTask = [v \in Validators |-> IF v = validator_task THEN "running" ELSE "none"]
    /\ vLoad = [v \in Validators |-> IF v = validator_task THEN "True" ELSE "none"]
    /\ mine = [t \in Tasks |-> 0]
    /\ exit_event = FALSE
    /\ rpc_server = FALSE
    /\ nRequests = 0
    /\ dynamic_config_file \in {NoRelease} \cup {r \in Releases : r.impl_name \in ImplNames}
    /\ validator_release = IF dynamic_config_file = NoRelease THEN DEFAULT_VALIDATOR_RELEASE
                           ELSE dynamic_config_file
    /\ relCall = NoSetCall
    /\ nSetCalls = 0

NextRelease == \E release \in Releases, built \in BOOLEAN : SetValidatorRelease(release, built)

SpecRelease == InitRelease /\ [][NextRelease]_vars

(***************************************************************************)
(* A supervisor constructed with or without a root key (__main__.py lines  *)
(* 26-35, test_supervisor.py setUp), run() not called: its methods are     *)
(* called one after the other.                                             *)
(***************************************************************************)
InitGuard ==
    /\ SupOff
    /\ ExtOff
    /\ DaemonOff
    /\ now = MaxInitTs
    /\ root_key \in BOOLEAN
    /\ localFile \in {Absent, Archive(1, 1, InitFilesOf(0))}
    /\ remoteFile \in {[r \in Remotes |-> IF r = 1 THEN f ELSE Absent] :
                          f \in {Absent, Archive(MaxInitTs, 2, InitFilesOf(1))}}
    /\ dataDir = EmptyDir
    /\ saveSeq = 0
    /\ pc = [t \in Tasks |-> IF t = "main" THEN "idle" ELSE "off"]
    /\ op = [t \in Tasks |-> "none"]
    /\ ret = [t \in Tasks |-> <<"none", "none">>]
    /\ latest_backup = [t \in Tasks |-> None]
    /\ idx = [t \in Tasks |-> 0]
    /\ seen = [t \in Tasks |-> <<>>]
    /\ observedMax = 0
    /\ handler_lock = "free"

NextGuard ==
    \/ \E pw \in Passwords : CallUnlock(pw)
    \/ CallLoad
    \/ CallSave
    \/ CallStart
    \/ CallStop
    \/ LoadDownload("main")
    \/ StartCreated("main")
    \/ StartLaunched("main")
    \/ StopJoined("main")
    \/ SaveUpload("main")
    \/ \E v \in Validators : VChildExit(v)
    \/ \E v \in Validators : VRestart(v)
    \/ \E v \in Validators : VTaskEnd(v)

SpecGuard == InitGuard /\ [][NextGuard]_vars

(***************************************************************************)
(* Properties of the supervised child.                                     *)
(***************************************************************************)

\* C6: termination escalates in order: kill is sent only after a terminate
\* request and a second terminate, and after both grace periods (2 s and
\* 10 s) have run out; no signal is sent to a process whose exit has been
\* observed; a process that is already gone does not make watch() fail.
C6_EscalationOrder ==
    /\ killSent => /\ termReqs = 2
                   /\ sinceTermReq >= FIRST_GRACE_PERIOD + FINAL_GRACE_PERIOD
    /\ watchPc = "grace2" => termReqs = 2 /\ sinceTermReq >= FIRST_GRACE_PERIOD
    /\ ~sigAfterExit
    /\ watchPc \in {"none", "wait_exit", "req_term", "grace1", "grace2", "await_kill",
                    "returned"}

\* A kill has been sent and its effect is awaited.
C6_Witness == killSent /\ watchPc = "await_kill" /\ proc = "running"

\* C7: for every kind of child, once stop is signalled watch() eventually
\* returns, whatever the process does with a graceful request.
C7_WatchReturns == (stop /\ watchPc # "none") ~> (watchPc \in {"returned", "none"})

\* C8: while the stop event is unset, a child that exited or a start() that
\* failed is followed by another call of start(), and the task ends only
\* after the stop event is set.
C8_RestartsUntilStopped ==
    /\ [](supPc = "done" => stop_event)
    /\ (~stop_event /\ supPc # "start" /\ proc # "running")
          ~> (supPc = "start" \/ stop_event)

\* A start() that failed: the loop is at its top with no process and the
\* stop event unset, having been through start() before.
C8_Witness == supPc = "watching" /\ watchPc = "returned" /\ ~stop_event

\* C9: start() is never called earlier than retry_delay after the loop
\* began watching; the idle wait ends early only on the stop event, and
\* then start() is not called.
C9_NoHotRestart ==
    /\ [](supPc = "start" => elapsed + idleWaited >= RETRY_DELAY)
    /\ [][(supPc = "idle" /\ supPc' # "idle" /\ elapsed + idleWaited < RETRY_DELAY)
             => (stop_event /\ supPc' = "done")]_vars

\* start() is called after a child that lived less than retry_delay.
C9_Witness == supPc = "start" /\ elapsed \in 1..(RETRY_DELAY - 1) /\ idleWaited > 0

\* C10: once the stop event is set the loop never calls start() again; it
\* stops the child if one is running, waits for watch() and ends when
\* watch() has returned, also when the event is set while start() is in
\* progress or during the retry delay.  For a validator or a log shipper
\* the task does end.
C10_StopEndsLoop ==
    /\ [][stop_event => ~(supPc' = "start" /\ supPc # "start")]_vars
    /\ [](supPc = "done" => stop_event /\ proc = "none" /\ watchPc = "none")
    /\ [](stop_event /\ supPc = "await_watch" /\ proc # "none" => stop)
    /\ stop_event ~> (supPc = "done" \/ watchPc \in {"wait_exit", "req_term", "grace1",
                                                      "grace2", "await_kill"})
    /\ (stop_event /\ kind # "ssh") ~> (supPc = "done")

\* The stop event is set while start() is in progress.
C10_Witness == stop_event /\ supPc = "start"

(***************************************************************************)
(* Properties of load_backup and save_backup.                              *)
(***************************************************************************)
\* The caller is between two calls and its last call was load_backup.
LoadReturned(result) == pc["main"] = "idle" /\ ret["main"] = <<"load_backup", result>>

\* C2: load_backup selects, among the local archive and every remote
\* archive that downloaded and decrypted, one with the greatest timestamp,
\* and among those of that timestamp the first it read (local, then the
\* nodes in order); it returns true exactly when there is one, and then the
\* canonical dir holds that archive's files and the local backup file holds
\* that archive's bytes.
C2_FreshestWins ==
    /\ LoadReturned("False") => seen["main"] = <<>>
    /\ LoadReturned("True") =>
         LET read == seen["main"]
             chosen == latest_backup["main"]
         IN /\ \E i \in 1..Len(read) :
                  /\ read[i] = chosen
                  /\ \A j \in 1..Len(read) : read[j].ts <= chosen.ts
                  /\ \A j \in 1..(i - 1) : read[j].ts < chosen.ts
            /\ localFile = chosen
            /\ \A f \in Files : chosen.files[f] # NoFile => dataDir[f] = chosen.files[f]

\* load_backup returned true having read three archives, the second as new
\* as the third and newer than the local one: the second was chosen.
C2_Witness ==
    /\ LoadReturned("True")
    /\ Len(seen["main"]) = 3
    /\ seen["main"][1].ts < seen["main"][2].ts
    /\ seen["main"][2].ts = seen["main"][3].ts
    /\ latest_backup["main"] = seen["main"][2]

SaveCalled ==
    /\ pc["main"] = "idle"
    /\ \/ pc'["main"] = "save_upload"
       \/ ret'["main"] # ret["main"] /\ ret'["main"][1] = "save_backup"

\* C22: save_backup called, unlocked and with no validator task, on a
\* canonical dir without slashing-protection.json raises
\* MissingValidatorData, and the call leaves the local backup file (its
\* bytes, whatever they were) and every node's file as they were and
\* awaits no upload.
C22_FailedSaveTouchesNothing ==
    [][(SaveCalled /\ root_key /\ ~ValidatorTaskExists /\ dataDir["slashing"] = NoFile)
          => /\ ret'["main"] = <<"save_backup", "MissingValidatorData">>
             /\ pc'["main"] = "idle"
             /\ localFile' = localFile
             /\ remoteFile' = remoteFile
             /\ saveSeq' = saveSeq]_vars

\* save_backup has raised MissingValidatorData while an archive was on the
\* disk: the archive is still there.
C22_Witness ==
    /\ pc["main"] = "idle"
    /\ ret["main"] = <<"save_backup", "MissingValidatorData">>
    /\ dataDir["slashing"] = NoFile
    /\ localFile.st = "valid"

\* The caller's step is the end of one upload of its save_backup.
UploadEnds == pc["main"] = "save_upload" /\ (idx'["main"] # idx["main"] \/ pc'["main"] # "save_upload")

\* C23: a save_backup that has written the local archive awaits the upload
\* to the first node, then, whether an upload copied the file or failed,
\* the upload to the next node, and after the last node it returns
\* normally; from the write to the return the local backup file is the
\* archive this save sealed.
C23_UploadsToEveryRemote ==
    /\ [][(SaveCalled /\ pc'["main"] = "save_upload")
            => /\ idx'["main"] = 1
               /\ localFile' = Pack(dataDir, now, localFile'.nonce)
               /\ remoteFile' = remoteFile]_vars
    /\ [][UploadEnds
            => /\ localFile' = localFile
               /\ \A r \in Remotes \ {idx["main"]} : remoteFile'[r] = remoteFile[r]
               /\ remoteFile'[idx["main"]] \in {remoteFile[idx["main"]], localFile}
               /\ IF idx["main"] < NumRemotes
                  THEN pc'["main"] = "save_upload" /\ idx'["main"] = idx["main"] + 1
                  ELSE /\ pc'["main"] = "idle"
                       /\ ret'["main"] = <<"save_backup", "returned">>]_vars
    /\ [](pc["main"] = "save_upload" => idx["main"] \in Remotes /\ localFile.st = "valid")

\* A save has returned normally after every upload failed: no node holds
\* the archive it sealed.
C23_Witness ==
    /\ pc["main"] = "idle"
    /\ ret["main"] = <<"save_backup", "returned">>
    /\ localFile.st = "valid"
    /\ localFile.nonce > NumRemotes + 1
    /\ \A r \in Remotes : remoteFile[r] # localFile

\* The caller's step is the beginning of a load_backup call.
LoadCalled == pc["main"] = "idle" /\ pc'["main"] = "load_download"

\* The caller's step is the end of one download of its load_backup.
DownloadEnds ==
    pc["main"] = "load_download" /\ (idx'["main"] # idx["main"] \/ pc'["main"] # "load_download")

\* C24: in load_backup a local file that is missing or does not decrypt
\* leaves no candidate, and a download that fails or does not decrypt
\* leaves the candidate and the local backup file as they were; the local
\* file is only ever replaced by a valid archive that becomes the
\* candidate; after the local file and after every node, the next node is
\* examined.  load_backup returns False exactly when it read no valid
\* archive, which is so whenever no site holds one, and then the canonical
\* dir is as it was.
C24_BadArchiveIsAbsent ==
    /\ [](latest_backup["main"].st \in {"none", "valid"})
    /\ [][LoadCalled
            => /\ idx'["main"] = 1
               /\ localFile' = localFile
               /\ dataDir' = dataDir
               /\ latest_backup'["main"] = IF localFile.st = "valid" THEN localFile ELSE None]_vars
    /\ [][DownloadEnds
            => LET file == remoteFile[idx["main"]]
                   taken == latest_backup'["main"] # latest_backup["main"]
               IN /\ file.st # "valid" => ~taken
                  /\ taken => latest_backup'["main"] = file
                  /\ localFile' = IF taken THEN file ELSE localFile
                  /\ IF idx["main"] < NumRemotes
                     THEN /\ pc'["main"] = "load_download"
                          /\ idx'["main"] = idx["main"] + 1
                          /\ dataDir' = dataDir
                     ELSE /\ pc'["main"] = "idle"
                          /\ ret'["main"][1] = "load_backup"
                          /\ ret'["main"][2] = "False" <=> latest_backup'["main"].st = "none"
                          /\ ret'["main"][2] = "False" <=> seen'["main"] = <<>>
                          /\ ret'["main"][2] = "False" => dataDir' = dataDir
                          /\ (localFile.st # "valid" /\ \A r \in Remotes : remoteFile[r].st # "valid")
                                => ret'["main"][2] = "False"]_vars

\* The local file and the first node's file do not decrypt, no candidate
\* was kept, and the valid archive of the second node is being fetched.
C24_Witness ==
    /\ pc["main"] = "load_download"
    /\ idx["main"] = 2
    /\ localFile.st = "corrupt"
    /\ remoteFile[1].st = "corrupt"
    /\ latest_backup["main"].st = "none"
    /\ remoteFile[2].st = "valid"

(***************************************************************************)
(* Properties of the daemon.                                               *)
(***************************************************************************)
\* Executions of start_validator between their first and last step.
StartsRunning ==
    {t \in Tasks : op[t] = "start_validator" /\ pc[t] \in {"load_download", "create",
                                                           "launch"}}

\* C1: validator starts are mutually exclusive under every interleaving of
\* the start at daemon startup, the starts and stops the RPC sessions ask
\* for, and shutdown: no two executions of start_validator overlap, and at
\* most one validator supervision task and one validator child exist.
C1_StartsExclusive ==
    /\ Cardinality(StartsRunning) <= 1
    /\ Cardinality({v \in Validators : vTask[v] = "running"}) <= 1
    /\ Cardinality({v \in Validators : vChild[v] = "running"}) <= 1

ValidatorStopped ==
    /\ validator_task = 0
    /\ \A v \in Validators : vChild[v] # "running" /\ vTask[v] # "running"
    /\ \A t \in Tasks : pc[t] \notin {"join", "save_upload"}

C28_StartupOrder ==
    /\ rpc_server => tunnels # "new" /\ promtails # "new"
    /\ \A s \in Sessions : pc[s] # "idle" => tunnels # "new" /\ promtails # "new"
    /\ pc["main"] = "boot" => rpc_server /\ tunnels = "running" /\ promtails # "new"

\* C28 as amended: run() starts the RPC server first, then every tunnel's
\* first start, then the log shippers, then its start_validator, each step
\* over before the next begins; the server listens while the tunnels and
\* the log shippers are being started.
C28_RpcServerFirst ==
    /\ pc["main"] = "start" =>
          ~rpc_server /\ tunnels = "new" /\ promtails \in {"new", "disabled"}
    /\ pc["main"] = "tunnels_start" =>
          rpc_server /\ tunnels = "new" /\ promtails \in {"new", "disabled"}
    /\ pc["main"] = "promtails_start" =>
          rpc_server /\ tunnels = "running" /\ promtails \in {"new", "disabled"}
    /\ pc["main"] \in {"boot", "load_download", "create", "launch"} =>
          rpc_server /\ tunnels = "running" /\ promtails \in {"running", "disabled"}
    /\ \A s \in Sessions : pc[s] # "idle" => pc["main"] # "start"

\* A session's handler has made a validator while run() has yet to start
\* the tunnels.
C28_Witness ==
    /\ pc["main"] = "tunnels_start"
    /\ tunnels = "new"
    /\ \E s \in Sessions : pc[s] = "launch"

\* C30: start_supervised_multi returns only when every child's first
\* start() has completed, all of them without raising, and then it yields
\* exactly one supervision task per child; when a child's start() raised
\* the call raises instead of returning tasks; no children yield an empty
\* list.
C30_MultiStart ==
    /\ multiPc = "returned" =>
          /\ \A i \in 1..subprocs : firstStart[i] \in {"task", "ended"}
          /\ Len(multiRet) = subprocs
          /\ \A i \in 1..subprocs :
                Cardinality({k \in 1..Len(multiRet) : multiRet[k] = i}) = 1
    /\ multiPc = "raised" =>
          /\ \E i \in 1..subprocs : firstStart[i] = "raised"
          /\ multiRet = <<>>
    /\ subprocs = 0 => multiPc \in {"call", "returned"} /\ multiRet = <<>>
    /\ (\E i \in 1..subprocs : firstStart[i] = "raised") => multiPc \in {"wait", "raised"}

\* The call has returned the tasks of several children.
C30_Witness ==
    /\ multiPc = "returned"
    /\ subprocs >= 2
    /\ Len(multiRet) = subprocs

\* C31: a start() call on a child that holds a process handle ends in
\* AlreadyRunning and changes nothing, so a child never has two live
\* processes; a start() call on a child whose watch() has returned goes on
\* to launch; and watch() asks a process to terminate only when stop() was
\* signalled during that process's own run.
C31_StartWhileRunning ==
    /\ [](cLive <= 1)
    /\ [](cTermReq => cRunStopped)
    /\ [][nStarts' # nStarts =>
            IF cProc # "none"
            THEN /\ startRet' = "AlreadyRunning"
                 /\ UNCHANGED <<cProc, cStop, cLogs, cStartPc, cWatchPc, cLive>>
            ELSE /\ startRet' = "pending"
                 /\ cStartPc' = "launch"]_vars

\* A second start() found the first process still held, and a third one
\* after watch() is launching.
C31_Witness ==
    /\ nStarts = 3
    /\ cStartPc = "launch"
    /\ cRunStopped

\* C32: when the target method raises inside a handler, the session writes
\* an error response with the request's id, the handler lock is released,
\* the session stays open with the user it had, and the lock is never held
\* by a session that is not in a handler, so that later requests on every
\* session are served.
C32_HandlerException ==
    /\ [](\A s \in Sessions : sLock = s => sPc[s] = "handle")
    /\ [][\A s \in Sessions :
            (sPc[s] = "handle" /\ sPc'[s] # "handle" /\ sOutcome'[s] = "raised") =>
                /\ sResp'[s].id = sReq[s].id
                /\ sResp'[s].is_error
                /\ sLock' = "free"
                /\ sPc'[s] = "read"
                /\ sUser'[s] = sUser[s]]_vars

\* After a handler of one session raised, a request of the other session
\* is in its handler.
C32_Witness ==
    /\ sOutcome["s1"] = "raised"
    /\ sResp["s1"].is_error
    /\ sUser["s1"] = "admin"
    /\ sPc["s2"] = "handle"

\* C38: when load_backup has unpacked an archive and returned True, the
\* canonical data dir holds exactly the files of the archive it selected:
\* the dir was empty before the unpack and nothing of an earlier load or
\* validator run is left in it.
C38_UnpackIntoEmptyDir ==
    (pc["main"] = "idle" /\ ret["main"] = <<"load_backup", "True">>)
        => dataDir = latest_backup["main"].files

\* C37: unlocking what lock wrote returns an archive with the data and the
\* timestamp of the archive locked when the key is the one it was locked
\* with, and raises LockedArchiveCorrupted when the key is another; and
\* unlock, also of changed bytes, returns no archive with other data or
\* another timestamp than the one locked.
C37_LockUnlockRoundTrip ==
    baPc = "unlocked" =>
        /\ ~baTampered =>
              IF baKey2 = baKey
              THEN baResult = [raised |-> "none", archive |-> baArchive]
              ELSE baResult.raised = "LockedArchiveCorrupted"
        /\ baResult.raised = "none" => baResult.archive = baArchive

\* An archive whose data begins like a packed timestamp came back from
\* unlock with the key it was locked with.
C37_Witness ==
    /\ baPc = "unlocked"
    /\ baKey2 = baKey
    /\ baResult.raised = "none"
    /\ baResult.archive = BackupArchive(<<1, 0, 0, 0>>, 65537)

\* C36: at most one check_host_key, of any tunnel or file copy, is between
\* its lookup and its last write of the known-hosts file; the caller that
\* is there holds the lock and no other does; the lock is free when a
\* check has returned, also when the key scan failed; and no node gets a
\* second line in the file.
C36_HostKeyChecksExclusive ==
    /\ Cardinality({c \in Checkers : khPc[c] \in {"lookup", "remove", "keyscan"}}) <= 1
    /\ \A c \in Checkers : khPc[c] \in {"lookup", "remove", "keyscan"} <=> khLock = c
    /\ \A h \in {1, 2} : Len(khFile[h]) <= 1

\* A key scan failed, its check returned False, and another caller's check
\* is at its lookup with the lock.
C36_Witness ==
    /\ khRet["tunnel2"] = "False"
    /\ khPc["tunnel2"] = "idle"
    /\ khPc["scp1"] = "lookup"
    /\ khLock = "scp1"
    /\ khPc["tunnel1"] = "wait"

\* C35: once RpcServer.stop() has set the exit event the server accepts no
\* connection, and no request has been dispatched to a handler after it
\* on any session.
C35_NothingAfterStop ==
    /\ sExit => ~sListening
    /\ ~sLate

Calls(m) ==
    /\ pc["main"] = "idle"
    /\ \/ pc'["main"] # "idle" /\ op'["main"] = m
       \/ pc'["main"] = "idle" /\ ret'["main"] # ret["main"] /\ ret'["main"][1] = m

\* The caller's step is a call of unlock.
CallsUnlock ==
    /\ pc["main"] = "idle"
    /\ \/ unlock_password' # unlock_password
       \/ ret'["main"] # ret["main"] /\ ret'["main"][1] = "unlock"

\* The call ended in the step that made it and nothing was downloaded,
\* written, unpacked or started, and the key is as it was.
NoEffect ==
    /\ pc'["main"] = "idle"
    /\ UNCHANGED <<root_key, localFile, remoteFile, dataDir, saveSeq, daemonVars, vSaves>>

\* C26: while no root key is loaded, load_backup, save_backup and
\* start_validator raise UnlockRequired, and while a validator supervision
\* task exists load_backup and save_backup raise ValidatorRunning, each
\* without effect; the root key becomes loaded only in an unlock call that
\* returns True, made with the password of the key descriptor; an unlock
\* with another password returns False and leaves the key as it was.
C26_GuardsWithoutEffect ==
    /\ [][\A m \in {"load_backup", "save_backup", "start_validator"} :
             (Calls(m) /\ ~root_key)
                => ret'["main"] = <<m, "UnlockRequired">> /\ NoEffect]_vars
    /\ [][\A m \in {"load_backup", "save_backup"} :
             (Calls(m) /\ root_key /\ ValidatorTaskExists)
                => ret'["main"] = <<m, "ValidatorRunning">> /\ NoEffect]_vars
    /\ [][(~root_key /\ root_key')
             => /\ CallsUnlock
                /\ ret'["main"] = <<"unlock", "True">>
                /\ unlock_password' = Passphrase]_vars
    /\ [][(CallsUnlock /\ unlock_password' # Passphrase)
             => ret'["main"] = <<"unlock", "False">> /\ NoEffect]_vars

\* A supervisor that started locked was unlocked by a call and runs a
\* validator: load_backup has just been refused with ValidatorRunning.
C26_Witness ==
    /\ ret["main"] = <<"load_backup", "ValidatorRunning">>
    /\ ValidatorTaskExists
    /\ unlock_password = Passphrase

\* The caller's step ends a call of method m in which it was suspended.
Returns(m) == op["main"] = m /\ pc'["main"] = "idle"

\* C34: start_validator returns False, loading and launching nothing, when
\* a supervision task exists, and never otherwise; when it returns True no
\* task existed and the task it started is stored.  stop_validator returns
\* False, saving nothing, when no task exists, and never otherwise; when
\* it returns True the task that existed has ended and none is stored.  So
\* after a stop that returned True there is no task for the next stop, and
\* after a start that returned True there is one for the next start.
C34_StartStopReturn ==
    /\ [][(Calls("start_validator") /\ validator_task # 0)
             => ret'["main"] = <<"start_validator", "False">> /\ NoEffect]_vars
    /\ [][(Calls("start_validator") /\ validator_task = 0)
             => (pc'["main"] # "idle" \/ ret'["main"] # <<"start_validator", "False">>)]_vars
    /\ [][Returns("start_validator")
             => /\ ret'["main"][2] # "False"
                /\ ret'["main"] = <<"start_validator", "True">> =>
                        /\ validator_task = 0
                        /\ validator_task' # 0
                        /\ vTask'[validator_task'] = "running"
                /\ ret'["main"] # <<"start_validator", "True">> =>
                        validator_task' = validator_task]_vars
    /\ [][(Calls("stop_validator") /\ validator_task = 0)
             => ret'["main"] = <<"stop_validator", "False">> /\ NoEffect]_vars
    /\ [][(Calls("stop_validator") /\ validator_task # 0)
             => /\ pc'["main"] = "join"
                /\ eventSet'[validator_stop_event]]_vars
    /\ [][Returns("stop_validator")
             => /\ ret'["main"] = <<"stop_validator", "True">>
                /\ validator_task' = 0
                /\ \A v \in Validators : vTask'[v] # "running" /\ vChild'[v] # "running"]_vars
    /\ []((pc["main"] = "idle" /\ ret["main"] = <<"stop_validator", "True">>)
             => validator_task = 0)
    /\ []((pc["main"] = "idle" /\ ret["main"] = <<"start_validator", "True">>)
             => validator_task # 0)

\* A second stop_validator after one that stopped the validator and saved
\* has returned False.
C34_Witness ==
    /\ pc["main"] = "idle"
    /\ ret["main"] = <<"stop_validator", "False">>
    /\ vTask[1] = "done"
    /\ saveSeq = 1
    /\ validator_task = 0

\* C25: set_validator_release raises ValidatorRunning while a validator
\* supervision task exists, and BadValidatorRelease when there is none and
\* the implementation name has no class or the image build fails, and in
\* both cases the in-memory release and the dynamic config file are as
\* before the call; otherwise it returns, and the in-memory release and
\* the file both hold the new release.
C25_SetReleaseOutcome ==
    relCall # NoSetCall =>
        LET bad == relCall.release.impl_name \notin ImplNames \/ ~relCall.built
        IN /\ relCall.running => relCall.result = "ValidatorRunning"
           /\ (~relCall.running /\ bad) => relCall.result = "BadValidatorRelease"
           /\ (relCall.running \/ bad) =>
                 /\ validator_release = relCall.memory
                 /\ dynamic_config_file = relCall.file
           /\ (~relCall.running /\ ~bad) =>
                 /\ relCall.result = "returned"
                 /\ validator_release = relCall.release
                 /\ dynamic_config_file = relCall.release

\* Session s is inside `async with self._handler_lock`, in its handler.
InHandler(s) == pc[s] \notin {"idle", "lock_wait", "off"}

\* C14: across all sessions at most one RPC handler is running against the
\* supervisor at any time, and it runs holding the handler lock; a session
\* whose request arrives meanwhile waits for the lock.
C14_OneHandler ==
    \A s1 \in Sessions :
        InHandler(s1) =>
            /\ handler_lock = s1
            /\ \A s2 \in Sessions \ {s1} : ~InHandler(s2)

\* One session's handler is suspended while the other session's request
\* waits for the lock.
C14_Witness ==
    \E s1, s2 \in Sessions :
        /\ s1 # s2
        /\ InHandler(s1)
        /\ pc[s1] \in {"load_download", "save_upload"}
        /\ pc[s2] = "lock_wait"

(***************************************************************************)
(* Properties of an RPC session.                                           *)
(***************************************************************************)
\* The step reads a line.
ReadsLine == nLines' = nLines + 1

\* C11: a method other than get_auth_challenge and auth, check_unlock on the
\* password path included, reaches its handler and the target only on a
\* session whose user was set by an earlier successful auth; before that an
\* operation's request is answered '<method> requires authentication' and
\* the target is not invoked; a failed auth leaves the session's user as it
\* was.
C11_AuthRequired ==
    [][ReadsLine =>
        /\ last'.handler \notin {"none", "get_auth_challenge", "auth"} =>
                authed /\ ctx_user \in RpcUsers
        /\ last'.call # "none" => authed /\ ctx_user \in RpcUsers
        /\ ( /\ ~authed
             /\ last'.line.form = "request"
             /\ last'.line.method \in OPERATIONS \ {"get_auth_challenge", "auth"} ) =>
                /\ last'.response =
                        Response(TRUE, "requires authentication", last'.line.method)
                /\ last'.handler = "none"
                /\ last'.call = "none"
        /\ (last'.handler = "auth" /\ last'.response.is_error) =>
                ctx_user' = ctx_user
        /\ ctx_user' # ctx_user =>
                last'.handler = "auth" /\ ~last'.response.is_error
    ]_vars

\* A request was dispatched to the target after a successful auth.
C11_Witness == authed /\ last.call = "get_health"

\* C12: the line read after begin_unlock answered "ENTER PASSPHRASE" is
\* stored as the password whatever it holds: no handler runs, the target is
\* not called and nothing is written; only that one line is captured, and
\* the line after it is handled as a request again.
C12_NextLineIsPassword ==
    [][ReadsLine =>
        /\ (last.handler = "begin_unlock" /\ last.response.result = "ENTER PASSPHRASE") =>
                /\ last'.captured
                /\ password' = last'.line
                /\ last'.response = NoResponse
                /\ last'.handler = "none"
                /\ last'.call = "none"
                /\ ctx_user' = ctx_user
        /\ last'.captured => last.handler = "begin_unlock"
        /\ last.captured =>
                /\ ~last'.captured
                /\ password' \in {password, NoLine}
                /\ last'.line.form # "not_utf8" => last'.response # NoResponse
    ]_vars

\* A well-formed request was taken as the password.
C12_Witness == last.captured /\ last.line.form = "request" /\ password = last.line

\* C13: with a password captured, a request for check_unlock runs the
\* password-check handler on exactly the captured line, and a request for
\* any other method is answered 'Expected method check_unlock' without a
\* call on the target; either way the password and the armed check are
\* cleared, so that no password is checked twice and the session is an
\* authenticated one with nothing armed.
C13_CheckUnlockNext ==
    [][ReadsLine =>
        /\ (password # NoLine /\ password_check # NoCheck /\ last'.line.form = "request") =>
                /\ IF last'.line.method = "check_unlock"
                   THEN last'.handler = "check_unlock" /\ last'.arg = password
                   ELSE /\ last'.response =
                                Response(TRUE, "Expected method", "check_unlock")
                        /\ last'.handler = "none"
                        /\ last'.call = "none"
                /\ password' = NoLine
                /\ password_check' = NoCheck
                /\ ctx_user' = ctx_user
                /\ ctx_user \in RpcUsers
        /\ last'.handler = "check_unlock" =>
                /\ password # NoLine
                /\ last'.arg = password
                /\ password' = NoLine
    ]_vars

\* check_unlock ran on the captured passphrase and unlock accepted it.
C13_Witness ==
    /\ last.handler = "check_unlock"
    /\ last.call = "unlock"
    /\ last.response = Response(FALSE, "True", "")
    /\ password = NoLine

\* C33: every line handled as a request, that is every line not captured
\* as the password, got a response: with the request's id when the line was
\* a well-formed request, and an error with id null when it was not.
C33_OneResponsePerLine ==
    (last.line.form # "none" /\ ~last.captured) =>
        /\ last.response # NoResponse
        /\ resp_id = (IF last.line.form = "request" THEN call_id ELSE NullId)
        /\ last.line.form # "request" => last.response.is_error /\ resp_id = NullId

\* C39: the target's unlock is called only by a check_unlock request made
\* while a captured password is held, with that password, on a session
\* whose user is set; the password held changes only by the capture of the
\* line read right after a successful begin_unlock, or by being cleared; a
\* check_unlock request made while no password is held does not reach the
\* target; and a password is held only while a password check is armed.
C39_UnlockOnlyCaptured ==
    /\ [](password # NoLine => password_check = "check_unlock" /\ ctx_user \in RpcUsers)
    /\ [][ReadsLine =>
            /\ last'.call = "unlock" =>
                    /\ password # NoLine
                    /\ last'.arg = password
                    /\ last'.line.method = "check_unlock"
                    /\ ctx_user \in RpcUsers
                    /\ password' = NoLine
            /\ password' \notin {password, NoLine} =>
                    /\ last'.captured
                    /\ password' = last'.line
                    /\ last.handler = "begin_unlock"
                    /\ ~last.response.is_error
            /\ (password = NoLine /\ last'.line.method = "check_unlock") =>
                    last'.call = "none"
       ]_vars

\* unlock was called with the captured line, and the session holds no
\* password afterwards.
C39_Witness ==
    /\ last.call = "unlock"
    /\ last.arg = RawLine("wrong")
    /\ last.response = Response(FALSE, "False", "")
    /\ password = NoLine
    /\ password_check = NoCheck

(***************************************************************************)
(* Properties of beacon node selection and of the health check.            *)
(***************************************************************************)
\* The step ends a selection pass; the step begins one.
PassEnds == valPc = "probe" /\ valPc' # "probe"
PassBegins == valPc # "probe" /\ valPc' = "probe"

\* C15: a launch attempt probes the port maps in the order of the list,
\* counts every answer but 200 with data.is_syncing false as unhealthy, and
\* binds the validator to the first node probed healthy: the nodes before
\* it were probed unhealthy in this attempt and none after it is probed;
\* with no healthy probe every node has been probed and none is bound.
C15_FirstHealthyBound ==
    [][PassEnds =>
        LET pr == probed'
            list == beacon_node_port_maps'
        IN  /\ \A i \in 1 .. Len(pr) : i <= Len(list) /\ pr[i].node = list[i]
            /\ \A i \in 1 .. Len(pr) :
                    pr[i].result = IF pr[i].answer = "synced" THEN "True" ELSE "False"
            /\ \A i \in 1 .. (Len(pr) - 1) : pr[i].result = "False"
            /\ IF pr[Len(pr)].result = "True"
               THEN beacon_node_port' = pr[Len(pr)].node /\ runner_proc' = "running"
               ELSE Len(pr) = Len(list) /\ beacon_node_port' = NoNode
    ]_vars

\* The validator runs bound to a node that answers healthy.
LaunchedHealthy ==
    /\ runner_proc = "running"
    /\ beacon_node_port # NoNode
    /\ nodeAnswer[beacon_node_port] = "synced"

\* C16: a launch attempt in which no node is probed healthy ends with
\* start() returning normally and no process; the loop begins the next
\* attempt only when retry_delay has passed, again and again, until a node
\* is healthy or the stop event is set; and if some node stays healthy
\* from some time on, the validator is eventually running bound to a
\* healthy node (or the stop event has been set).
C16_RetriesUntilHealthy ==
    /\ [][ (PassEnds /\ \A i \in 1 .. Len(probed') : probed'[i].answer # "synced") =>
                /\ probed'[Len(probed')].result = "False"
                /\ runner_proc' = "none"
                /\ valPc' = "top" ]_vars
    /\ [][PassBegins => sinceStarted = RETRY_DELAY /\ ~val_stop_event]_vars
    /\ \A n \in Nodes :
            <>[](nodeAnswer[n] = "synced") => <>(LaunchedHealthy \/ val_stop_event)

\* The order of a and b in a list that holds both.
Before(list, a, b) == IndexOf(list, a) < IndexOf(list, b)
Entries(list) == {list[i] : i \in 1 .. Len(list)}

\* C40: a selection pass probes no node twice, and when it has ended
\* without a healthy node every configured node was probed unhealthy in
\* it, also when connect_eth2_node reordered the list during the pass.
C40_PassProbesEachOnce ==
    /\ \A i, j \in 1 .. Len(probed) : i # j => probed[i].node # probed[j].node
    /\ (valPc = "top" /\ probed # <<>> /\ probed[Len(probed)].result = "False") =>
            \A n \in Entries(beacon_node_port_maps) :
                \E i \in 1 .. Len(probed) :
                    probed[i].node = n /\ probed[i].result = "False"

\* C17: a connect_eth2_node(h) that returns leaves h first in the list, the
\* list a permutation of what it was and the other entries in the order
\* they had; for an h that is not configured the call raises UnknownNode,
\* the list is as it was and the validator is not stopped.
C17_PrioritizeMovesToFront ==
    [][connectCall'.ret # "none" =>
        LET h == connectCall'.arg
            old == beacon_node_port_maps
            new == beacon_node_port_maps'
        IN  IF h \in Entries(old)
            THEN /\ connectCall'.ret = "returned"
                 /\ new[1] = h
                 /\ Len(new) = Len(old)
                 /\ Entries(new) = Entries(old)
                 /\ \A a, b \in Entries(old) \ {h} :
                        Before(old, a, b) <=> Before(new, a, b)
            ELSE /\ connectCall'.ret = "UnknownNode"
                 /\ new = old
                 /\ runner_stop' = runner_stop
    ]_vars

\* The last of three port maps was moved to the front, the validator
\* was stopped.
C17_Witness ==
    /\ connectCall = [arg |-> 3, ret |-> "returned"]
    /\ beacon_node_port_maps = <<3, 1, 2>>
    /\ runner_stop

\* C18: after a connect_eth2_node(h) that succeeds while the validator's
\* supervision task exists, a running child is told to stop, the task goes
\* on, and a selection pass over the list with h first eventually begins
\* (unless a later call puts another node first or the stop event is set),
\* wherever the supervision loop is when the call is made.
C18_ReorderTakesEffect ==
    /\ [][ (pending' # pending /\ pending' # 0) =>
                /\ valPc' = valPc
                /\ runner_proc = "running" => runner_stop' ]_vars
    /\ \A h \in Nodes :
            (pending = h) ~> (pending # h \/ val_stop_event)

RECURSIVE TrailingFailures(_)
\* The length of the run of failed probes that ends the history.
TrailingFailures(h) ==
    IF h = <<>> \/ h[Len(h)] # "False" THEN 0
    ELSE 1 + TrailingFailures(SubSeq(h, 1, Len(h) - 1))

\* C19: monitor() has returned exactly when the last retries + 1 probes
\* all failed; while it runs the run of failures is at most retries and
\* the count is that run's length, 0 after a success; with the validator's
\* retries of 2 it returns on the third failure in a row.
C19_MonitorReturns ==
    /\ hc_state = "returned" => TrailingFailures(hc_results) = hc_retries + 1
    /\ hc_state \in {"sleeping", "cancelled"} =>
            /\ TrailingFailures(hc_results) <= hc_retries
            /\ hc_failures = TrailingFailures(hc_results)
    /\ hc_state = "raised" => TrailingFailures(SubSeq(hc_results, 1, Len(hc_results) - 1)) <= hc_retries
    /\ (hc_state = "returned" /\ hc_retries = HEALTH_RETRIES) =>
            /\ Len(hc_results) >= 3
            /\ \A i \in (Len(hc_results) - 2) .. Len(hc_results) : hc_results[i] = "False"

\* The validator's monitor returned on three failures in a row that came
\* after two failures and a success.
C19_Witness ==
    /\ hc_state = "returned"
    /\ hc_retries = HEALTH_RETRIES
    /\ hc_results = <<"False", "False", "True", "False", "False", "False">>

\* C20: when the health check task has returned (more than retries
\* failures in a row) or raised while the child is watched, the loop stops
\* the child, awaits watch(), waits until retry_delay has passed and, the
\* stop event being unset, starts the child with a new selection pass; the
\* health check stops no child unless its task has ended.
C20_UnhealthyRestarts ==
    /\ [](probeStop =>
            /\ monitor \in {"returned", "raised"}
            /\ monitor = "returned" => mon_failures = HEALTH_RETRIES + 1
            /\ valPc = "stopping" => runner_stop)
    /\ [][PassBegins =>
            /\ ~val_stop_event
            /\ runner_proc = "none"
            /\ sinceStarted = RETRY_DELAY ]_vars
    /\ (valPc = "watch" /\ monitor \in {"returned", "raised"})
            ~> (probeStop \/ val_stop_event \/ runner_proc # "running")
    /\ probeStop ~> (valPc = "probe" \/ val_stop_event)

\* The child was stopped for its health check and a new selection pass has
\* begun.
C20_Witness ==
    /\ probeStop
    /\ valPc = "probe"
    /\ monitor = "returned"
    /\ ~val_stop_event

====
